---- MODULE Spec2Model ----
(***************************************************************************)
(* A model of the AWX operator's reconciliation core: the REST client      *)
(* (pkg/awx/client.go), the three resource managers (projects.go,          *)
(* inventories.go, jobtemplates.go) and the reconcile loop of the          *)
(* AWXInstance controller (Reconcile, reconcileInternalChanges,            *)
(* finalizeAWXInstance).                                                   *)
(*                                                                         *)
(* The remote AWX server is the environment: it holds, per endpoint, a set *)
(* of objects (field bags with a numeric id), answers every HTTP call      *)
(* either with success or with an error, and applies a call only when it   *)
(* answers with success.                                                   *)
(***************************************************************************)
EXTENDS Naturals, Integers, Sequences, FiniteSets, TLC

VARIABLES
    remote,     \* the AWX server's objects: endpoint -> set of field bags
    nextId,     \* the AWX server's next free id, per endpoint
    k8s,        \* the AWXInstance object as stored by the API server
    mem,        \* the reconciler's in-memory copy of the instance in a pass
    pc,         \* position of the worker inside a pass
    calls,      \* the calls issued so far by the current (or last) pass
    result,     \* what the last finished pass returned (ctrl.Result, error)
    faults,     \* number of HTTP calls the AWX server has failed so far
    apiFaults,  \* number of writes the Kubernetes API server has failed so far
    edits       \* number of out-of-band changes made on the server so far

vars == <<remote, nextId, k8s, mem, pc, calls, result, faults, apiFaults, edits>>

----------------------------------------------------------------------------
(* Bounds of the model *)

\* HTTP calls the AWX server fails in a run
MaxFaults == 1
\* writes (Update, Status().Update) the Kubernetes API server fails in a run
MaxApiFaults == 1
\* out-of-band changes made directly on the AWX server in a run
MaxEdits == 1
\* positions of one manager operation's HTTP calls at which a failure may be injected
MaxOpCalls == 4
\* the same for an Ensure called on its own, which may also prune hosts
MaxLabCalls == 7
\* answers other than a plain 2xx that a client operation called on its own meets
MaxShapes == 2

----------------------------------------------------------------------------
(* Values *)

\* the nil map / nil object of the Go code
Nil == << >>

IsNil(x) == DOMAIN x = {}

\* a relation field of a remote object: JSON null, a bare numeric id, or an
\* embedded object with a name
RefNull == [ref |-> "null"]
RefId(id) == [ref |-> "id", id |-> id]
RefObject(id, name) == [ref |-> "object", id |-> id, name |-> name]

Endpoints == {"projects", "inventories", "job_templates", "hosts", "credentials"}

\* the organization id both managers hard-code
orgID == 1

\* outcome of one HTTP call: 2xx, an error whose text contains "404", any other error
Outcomes == {"ok", "e404", "err"}

\* further answers of a server: "e500b" is a status 500 whose body holds the
\* digits 404; "bare" a 2xx list answered as a bare JSON array; the others a
\* 2xx create answered without the id: "noid" with the posted fields alone,
\* "echoOld" with a results array of the objects the endpoint held before,
\* "echoAll" with a results array of all its objects, "echoNoId" with a
\* results array that holds the created object without its id
CreateAnswers == {"noid", "echoOld", "echoAll", "echoNoId"}
Answers == Outcomes \cup {"e500b", "bare"} \cup CreateAnswers

Reconciled == "Reconciled"
ReconciledCorrected == "Reconciled (corrected internal changes)"
FailedPrefix == "Failed: "

----------------------------------------------------------------------------
(* The declared spec (api/v1alpha1) *)

ProjectSpec(name, scmType, scmUrl, scmBranch, scmCredential) ==
    [name |-> name, description |-> "d", scmType |-> scmType, scmUrl |-> scmUrl,
     scmBranch |-> scmBranch, scmCredential |-> scmCredential]

HostSpec(name) == [name |-> name, description |-> "d", variables |-> ""]

InventorySpec(name, hosts) ==
    [name |-> name, description |-> "d", variables |-> "", hosts |-> hosts]

JobTemplateSpec(name, projectName, inventoryName) ==
    [name |-> name, description |-> "d", projectName |-> projectName,
     inventoryName |-> inventoryName, playbook |-> "site.yml", extraVars |-> ""]

AWXInstanceSpec(external) ==
    [externalInstance |-> external,
     projects |-> << ProjectSpec("P1", "git", "https://x/y.git", "", ""),
                     ProjectSpec("P2", "manual", "", "", "") >>,
     inventories |-> << InventorySpec("I1", << HostSpec("h1") >>) >>,
     jobTemplates |-> << JobTemplateSpec("J1", "P1", "I1") >>]

\* a Go map[string]string: nil until allocated with make
NilMap == [alloc |-> FALSE, m |-> << >>]

\* the empty status of a freshly created instance.  lastConnectionCheck is
\* kept as its age: "zero" (unset), "recent" (less than 30 seconds ago) or
\* "old" (30 seconds ago or more)
EmptyStatus ==
    [conditions |-> << >>, projectStatuses |-> NilMap, inventoryStatuses |-> NilMap,
     jobTemplateStatuses |-> NilMap, lastConnectionCheck |-> "zero",
     connectionStatus |-> ""]

----------------------------------------------------------------------------
(* Small helpers *)

\* m[k] = v on a Go map modelled as a function
MapSet(m, k, v) == [x \in DOMAIN m \cup {k} |-> IF x = k THEN v ELSE m[x]]

\* _, ok := obj[k].  A store keeps the server's key of an object under id; the
\* field idAs, when present, says how the answers render it: "none" leaves
\* the id field out of the JSON object
Has(obj, k) ==
    /\ k \in DOMAIN obj
    /\ ~(k = "id" /\ "idAs" \in DOMAIN obj /\ obj.idAs = "none")

\* a field is present, a string, and equal to the wanted value
FieldIs(obj, f, v) == Has(obj, f) /\ obj[f] = v

Last(s) == s[Len(s)]

\* a set of objects as the list the server returns, ordered by id
RECURSIVE SortById(_)
SortById(S) ==
    IF S = {} THEN << >>
    ELSE LET m == CHOOSE x \in S : \A y \in S : x.id <= y.id
         IN  << m >> \o SortById(S \ {m})

\* one entry of the call log: an HTTP call, or a manager call of the loop
Entry(phase, verb, kind, name, id, res) ==
    [phase |-> phase, verb |-> verb, kind |-> kind, name |-> name, id |-> id, res |-> res]

HttpVerbs == {"GET", "LIST", "POST", "PATCH", "DELETE"}

\* the error text of a failed HTTP call
ErrText(outcome) ==
    IF outcome = "bare"
    THEN "failed to parse response: json: cannot unmarshal array into Go value of type struct"
    ELSE IF outcome = "e404" THEN "request failed with status 404"
    ELSE IF outcome = "e500b" THEN "request failed with status 500: worker 404 timed out"
    ELSE "request failed with status 500"

\* strings.Contains(err.Error(), "404") on the error of a failed HTTP call
Mentions404(outcome) == outcome \in {"e404", "e500b"}

----------------------------------------------------------------------------
(* The AWX server (environment): what a 2xx answer does and returns *)

\* a server that ignores the ?name= filter
ServerListAll(store, kind, name) == SortById(store[kind])

\* objects of an endpoint whose name equals the ?name= filter, in id order
ServerList(store, kind, name) ==
    SortById({ x \in store[kind] : x.name = name })

\* objects behind inventories/<id>/hosts, in id order
ServerListHosts(store, inventoryID) ==
    SortById({ h \in store["hosts"] : h.inventory = inventoryID })

\* PATCH semantics: the supplied fields replace the stored ones, the rest stay
Merge(obj, data) ==
    [f \in DOMAIN obj \cup DOMAIN data |-> IF f \in DOMAIN data THEN data[f] ELSE obj[f]]

ServerHas(store, kind, id) == \E x \in store[kind] : x.id = id

ServerGet(store, kind, id) == CHOOSE x \in store[kind] : x.id = id

----------------------------------------------------------------------------
(* A thread t is the run of one step of a pass: the world it acts on        *)
(* (w = [remote, nextId]), the oracle o answering its HTTP calls, the       *)
(* number n of HTTP calls made, the log, and the (value, error) pair the    *)
(* last operation returned: obj, ok and err ("" for a nil error).  desc     *)
(* says in which order a Go map of this step is ranged over.                *)

Thread(phase, w, log, o, desc) ==
    [phase |-> phase, w |-> w, o |-> o, n |-> 0, log |-> log, desc |-> desc,
     err |-> "", obj |-> Nil, ok |-> TRUE]

\* the answer the next HTTP call of the thread gets: the oracle's outcome of
\* that call
Answer(t) == IF t.n + 1 \in DOMAIN t.o THEN t.o[t.n + 1] ELSE "ok"

\* the thread after an HTTP call
Sent(t, verb, kind, name, id, res) ==
    [t EXCEPT !.n = @ + 1, !.log = Append(@, Entry(t.phase, verb, kind, name, id, res))]

\* return nil, err / return obj, nil / return bool
Fail(t, msg) == [t EXCEPT !.err = msg, !.obj = Nil]
Done(t, obj) == [t EXCEPT !.err = "", !.obj = obj]
Verdict(t, b) == [t EXCEPT !.ok = b]

----------------------------------------------------------------------------
(* pkg/awx/client.go *)

\* getObjectID without its checks: whatever the object holds is its id
getObjectIDUnchecked(obj) == [err |-> "", id |-> obj.id]

\* getObjectID: the object's id, or an error when the field is missing, is a
\* string that is no number ("word"), or is of a type other than number and
\* string ("bool"); a string that holds a number is converted
getObjectID(obj) ==
    IF ~Has(obj, "id") THEN [err |-> "object has no ID field", id |-> 0]
    ELSE IF ~Has(obj, "idAs") \/ obj.idAs = "number" THEN [err |-> "", id |-> obj.id]
    ELSE IF obj.idAs = "string" THEN [err |-> "", id |-> obj.id]
    ELSE IF obj.idAs = "word"
    THEN [err |-> "strconv.Atoi: parsing: invalid syntax", id |-> 0]
    ELSE [err |-> "unexpected ID type: " \o obj.idAs, id |-> 0]

\* GET <endpoint>/<id>/
GetObject(t, kind, id) ==
    LET res == IF Answer(t) = "ok" /\ ~ServerHas(t.w.remote, kind, id)
               THEN "e404" ELSE Answer(t)
    IN  IF res # "ok" THEN Fail(Sent(t, "GET", kind, "", id, res), ErrText(res))
        ELSE IF ~Has(ServerGet(t.w.remote, kind, id), "id")
        THEN Fail(Sent(t, "GET", kind, "", id, res), "API returned object without ID field")
        ELSE Done(Sent(t, "GET", kind, "", id, res), ServerGet(t.w.remote, kind, id))

\* GET <endpoint>/?name=<name>, answered with the paginated envelope
ListObjects(t, kind, name) ==
    IF Answer(t) = "bare"
    THEN Fail(Sent(t, "LIST", kind, name, 0, "bare"), ErrText("bare"))
    ELSE IF Answer(t) # "ok"
    THEN Fail(Sent(t, "LIST", kind, name, 0, Answer(t)), ErrText(Answer(t)))
    ELSE Done(Sent(t, "LIST", kind, name, 0, "ok"), ServerList(t.w.remote, kind, name))

\* GET inventories/<id>/hosts (ListObjects with no filter)
ListHosts(t, inventoryID) ==
    IF Answer(t) = "bare"
    THEN Fail(Sent(t, "LIST", "hosts", "", inventoryID, "bare"), ErrText("bare"))
    ELSE IF Answer(t) # "ok"
    THEN Fail(Sent(t, "LIST", "hosts", "", inventoryID, Answer(t)), ErrText(Answer(t)))
    ELSE Done(Sent(t, "LIST", "hosts", "", inventoryID, "ok"),
              ServerListHosts(t.w.remote, inventoryID))

\* a FindObjectByName that never finds the object
NothingListed(l) == IF l.err # "" THEN l ELSE Done(l, Nil)

\* a FindObjectByName that reports an empty list as an error
AbsentIsError(l) ==
    IF l.err # "" THEN l
    ELSE IF Len(l.obj) = 0 THEN Fail(l, "object not found")
    ELSE Done(l, l.obj[1])

\* FindObjectByName, after its ListObjects: the first object listed, nil
\* (and no error) when none is
FirstListed(l) ==
    IF l.err # "" THEN l
    ELSE IF Len(l.obj) = 0 THEN Done(l, Nil)
    ELSE Done(l, l.obj[1])

FindObjectByName(t, kind, name) == FirstListed(ListObjects(t, kind, name))

\* the first object of a results array that carries the name, nil when none does
FirstNamed(results, name) ==
    IF \E i \in 1..Len(results) : FieldIs(results[i], "name", name)
    THEN results[CHOOSE i \in 1..Len(results) :
                     /\ FieldIs(results[i], "name", name)
                     /\ \A j \in 1..(i - 1) : ~FieldIs(results[j], "name", name)]
    ELSE Nil

\* the results array of a create answered with a list: see CreateAnswers
Echoed(before, after, data, res) ==
    IF res = "echoOld" THEN SortById(before)
    ELSE IF res = "echoAll" THEN SortById(after)
    ELSE IF res = "echoNoId" THEN << data >>
    ELSE << >>

\* CreateObject, after the separate request that looks for the created
\* object by name: the first object listed, else the first of the results
CreateLooked(l, results) ==
    IF l.err = "" /\ Len(l.obj) > 0 THEN Done(l, l.obj[1]) ELSE Done(l, results[1])

\* CreateObject, after a 2xx answer that holds no id: p is the thread after
\* the POST, results the results array of the answer (empty when it has none)
CreateWithoutId(p, kind, data, results) ==
    IF Len(results) = 0 THEN Fail(p, "unexpected API response format")
    ELSE IF ~IsNil(FirstNamed(results, data.name)) THEN Done(p, FirstNamed(results, data.name))
    ELSE CreateLooked(ListObjects(p, kind, data.name), results)

\* the thread after a POST that the server answered with 2xx: the object exists
Posted(t, kind, data, res) ==
    [Sent(t, "POST", kind, data.name, t.w.nextId[kind], res) EXCEPT
        !.w = [remote |-> [t.w.remote EXCEPT ![kind] =
                              @ \cup {Merge(data, [id |-> t.w.nextId[kind]])}],
               nextId |-> [t.w.nextId EXCEPT ![kind] = @ + 1]]]

\* CreateObject: POST <endpoint>/, answered with the created object, or
\* without its id
CreateObject(t, kind, data) ==
    IF Answer(t) = "ok"
    THEN Done(Posted(t, kind, data, "ok"), Merge(data, [id |-> t.w.nextId[kind]]))
    ELSE IF Answer(t) \in CreateAnswers
    THEN CreateWithoutId(Posted(t, kind, data, Answer(t)), kind, data,
                         Echoed(t.w.remote[kind],
                                t.w.remote[kind] \cup {Merge(data, [id |-> t.w.nextId[kind]])},
                                data, Answer(t)))
    ELSE Fail(Sent(t, "POST", kind, data.name, 0, Answer(t)), ErrText(Answer(t)))

\* an UpdateObject whose PATCH changes nothing on the server
UpdateIgnored(t, kind, id, data) ==
    Done(Sent(t, "PATCH", kind, data.name, id, "ok"), Merge(data, [id |-> id]))

\* UpdateObject: PATCH <endpoint>/<id>/, answered with the updated object
UpdateObject(t, kind, id, data) ==
    LET res == IF Answer(t) = "ok" /\ ~ServerHas(t.w.remote, kind, id)
               THEN "e404" ELSE Answer(t)
    IN  IF res # "ok" THEN Fail(Sent(t, "PATCH", kind, data.name, id, res), ErrText(res))
        ELSE Done([Sent(t, "PATCH", kind, data.name, id, res) EXCEPT
                      !.w.remote[kind] = { x \in @ : x.id # id }
                                         \cup {Merge(ServerGet(t.w.remote, kind, id), data)}],
                  Merge(ServerGet(t.w.remote, kind, id), data))

\* DeleteObject, after the GET that follows the DELETE: the object must be gone
DeleteChecked(ver) ==
    IF ver.err = "" /\ ~IsNil(ver.obj)
    THEN Fail(ver, "object still exists after deletion attempt")
    ELSE Done(ver, Nil)

\* DeleteObject, after the GET that precedes the DELETE; an error text that
\* contains "404" counts as deleted, for the GET and for the DELETE
DeleteVerified(pre, kind, id) ==
    IF pre.err # ""
    THEN IF Mentions404(Last(pre.log).res) THEN Done(pre, Nil)
         ELSE Fail(pre, "failed to verify object before deletion: " \o pre.err)
    ELSE IF Mentions404(Answer(pre))
    THEN Done(Sent(pre, "DELETE", kind, "", id, Answer(pre)), Nil)
    ELSE IF Answer(pre) # "ok"
    THEN Fail(Sent(pre, "DELETE", kind, "", id, Answer(pre)),
              "failed to delete object: " \o ErrText(Answer(pre)))
    ELSE DeleteChecked(GetObject([Sent(pre, "DELETE", kind, "", id, "ok") EXCEPT
                                     !.w.remote[kind] = { x \in @ : x.id # id }],
                                 kind, id))

DeleteObject(t, kind, id) == DeleteVerified(GetObject(t, kind, id), kind, id)

----------------------------------------------------------------------------
(* pkg/awx/projects.go *)

\* the field map EnsureProject writes (the fields it sets to fixed literals
\* other than organization and credential are left out); credential is the
\* object the credential lookup found, or nil
ProjectData(ps, credential) ==
    LET base == [name |-> ps.name, description |-> ps.description,
                 scm_type |-> ps.scmType, organization |-> orgID,
                 credential |-> IF ~IsNil(credential) /\ Has(credential, "id")
                                THEN RefId(credential.id) ELSE RefNull]
        url  == IF ps.scmType # "manual" /\ ps.scmUrl # ""
                THEN Merge(base, [scm_url |-> ps.scmUrl]) ELSE base
    IN  IF ps.scmBranch # "" THEN Merge(url, [scm_branch |-> ps.scmBranch])
        ELSE IF ps.scmType # "manual" THEN Merge(url, [scm_branch |-> "main"])
        ELSE url

IsProjectInDesiredState(project, ps) ==
    /\ FieldIs(project, "name", ps.name)
    /\ FieldIs(project, "description", ps.description)
    /\ FieldIs(project, "scm_type", ps.scmType)
    /\ (ps.scmType # "manual" /\ ps.scmUrl # "") => FieldIs(project, "scm_url", ps.scmUrl)
    /\ ps.scmBranch # "" => FieldIs(project, "scm_branch", ps.scmBranch)
    /\ ps.scmCredential # "" =>
          /\ Has(project, "credential")
          /\ project.credential.ref = "object"
          /\ project.credential.name = ps.scmCredential

GetProject(t, name) == FindObjectByName(t, "projects", name)

\* a create whose returned object is not checked for its id
CreatedUnchecked(c, what, quoted) ==
    IF c.err # "" THEN Fail(c, "failed to create " \o what \o ": " \o c.err)
    ELSE IF IsNil(c.obj) THEN Fail(c, "received nil " \o what \o " after creation")
    ELSE c

\* the checks that follow CreateObject and UpdateObject in the three Ensure
\* operations; what is "project", "inventory" or "job template"
Created(c, what, quoted) ==
    IF c.err # "" THEN Fail(c, "failed to create " \o what \o ": " \o c.err)
    ELSE IF IsNil(c.obj) THEN Fail(c, "received nil " \o what \o " after creation")
    ELSE IF ~Has(c.obj, "id") THEN Fail(c, "created " \o what \o quoted \o " has no ID field")
    ELSE c

Updated(u, what) ==
    IF u.err # "" THEN Fail(u, "failed to update " \o what \o ": " \o u.err) ELSE u

\* an EnsureProject that creates whether or not it found the project
EnsureProjectAlwaysCreates(cf, project, ps) ==
    IF cf.err # "" THEN Fail(cf, "failed to find SCM credential: " \o cf.err)
    ELSE Created(CreateObject(cf, "projects", ProjectData(ps, cf.obj)), "project", "")

\* EnsureProject from the credential lookup on: create or update
EnsureProjectWrite(cf, project, ps) ==
    IF cf.err # "" THEN Fail(cf, "failed to find SCM credential: " \o cf.err)
    ELSE IF IsNil(project)
    THEN Created(CreateObject(cf, "projects", ProjectData(ps, cf.obj)), "project", "")
    ELSE IF getObjectID(project).err # ""
    THEN Fail(cf, "failed to get ID from existing project '" \o ps.name \o "': "
                  \o getObjectID(project).err)
    ELSE Updated(UpdateObject(cf, "projects", project.id, ProjectData(ps, cf.obj)), "project")

\* an EnsureProject that takes a failed credential lookup for no credential
EnsureProjectLenient(f, ps) ==
    IF f.err # "" THEN Fail(f, "failed to check if project exists: " \o f.err)
    ELSE EnsureProjectWrite(IF ps.scmCredential # ""
                            THEN Done(FindObjectByName(f, "credentials", ps.scmCredential),
                                      Nil)
                            ELSE Done(f, Nil),
                            f.obj, ps)

\* EnsureProject from the project lookup on
EnsureProjectFound(f, ps) ==
    IF f.err # "" THEN Fail(f, "failed to check if project exists: " \o f.err)
    ELSE EnsureProjectWrite(IF ps.scmCredential # ""
                            THEN FindObjectByName(f, "credentials", ps.scmCredential)
                            ELSE Done(f, Nil),
                            f.obj, ps)

EnsureProject(t, ps) == EnsureProjectFound(FindObjectByName(t, "projects", ps.name), ps)

\* the three Delete operations from the DeleteObject call on
Deleted(d, delMsg) ==
    IF d.err # "" THEN Fail(d, delMsg \o d.err) ELSE Done(d, Nil)

\* a Delete that, finding no object of the name, deletes the object of id 1
DeleteAnyway(f, kind, findMsg, idMsg, delMsg) ==
    IF f.err # "" THEN Fail(f, findMsg \o f.err)
    ELSE Deleted(DeleteObject(f, kind, IF IsNil(f.obj) THEN 1 ELSE f.obj.id), delMsg)

\* the three Delete operations from the lookup on
DeleteFound(f, kind, findMsg, idMsg, delMsg) ==
    IF f.err # "" THEN Fail(f, findMsg \o f.err)
    ELSE IF IsNil(f.obj) THEN Done(f, Nil)
    ELSE IF getObjectID(f.obj).err # "" THEN Fail(f, idMsg \o getObjectID(f.obj).err)
    ELSE Deleted(DeleteObject(f, kind, f.obj.id), delMsg)

DeleteProject(t, name) ==
    DeleteFound(FindObjectByName(t, "projects", name), "projects",
                "failed to check if project exists: ",
                "failed to get project ID: ", "failed to delete project " \o name \o ": ")

----------------------------------------------------------------------------
(* pkg/awx/inventories.go *)

GetInventory(t, name) == FindObjectByName(t, "inventories", name)

isHostInDesiredState(host, hs) ==
    /\ FieldIs(host, "name", hs.name)
    /\ FieldIs(host, "description", hs.description)
    /\ hs.variables # "" => FieldIs(host, "variables", hs.variables)

\* existingHostMap: name -> host, a later host of the same name replacing an earlier
RECURSIVE HostMap(_, _)
HostMap(hosts, i) ==
    IF i = 0 THEN Nil
    ELSE IF Has(hosts[i], "name") THEN MapSet(HostMap(hosts, i - 1), hosts[i].name, hosts[i])
    ELSE HostMap(hosts, i - 1)

\* existingHostMap of a host listing
ExistingHostMap(l) == HostMap(l.obj, Len(l.obj))

\* IsInventoryInDesiredState from the host listing on
HostsInDesiredState(l, hosts) ==
    IF l.err # "" THEN Verdict(l, FALSE)
    ELSE Verdict(l, /\ \A i \in 1..Len(hosts) :
                        /\ hosts[i].name \in DOMAIN ExistingHostMap(l)
                        /\ isHostInDesiredState(ExistingHostMap(l)[hosts[i].name], hosts[i])
                    /\ Len(l.obj) = Len(hosts))

\* the comparison; it lists the inventory's hosts when hosts are declared
IsInventoryInDesiredState(t, inventory, is) ==
    IF ~( /\ FieldIs(inventory, "name", is.name)
          /\ FieldIs(inventory, "description", is.description)
          /\ is.variables # "" => FieldIs(inventory, "variables", is.variables) )
    THEN Verdict(t, FALSE)
    ELSE IF Len(is.hosts) = 0 THEN Verdict(t, TRUE)
    ELSE IF getObjectID(inventory).err # "" THEN Verdict(t, FALSE)
    ELSE HostsInDesiredState(ListHosts(t, inventory.id), is.hosts)

HostData(hs, inventoryID) ==
    [name |-> hs.name, description |-> hs.description, inventory |-> inventoryID,
     variables |-> hs.variables]

\* reconcileHosts after the write of one desired host
HostWritten(r, verb, name) ==
    IF r.err # "" THEN Fail(r, "failed to " \o verb \o " host " \o name \o ": " \o r.err)
    ELSE r

\* the loop of reconcileHosts over the desired hosts, from the i-th on:
\* update or create each, stop at the first error
RECURSIVE EnsureHosts(_, _, _, _, _)
EnsureHosts(t, inventoryID, hosts, i, m) ==
    IF t.err # "" \/ i > Len(hosts) THEN t
    ELSE IF hosts[i].name \in DOMAIN m
    THEN IF getObjectID(m[hosts[i].name]).err # ""
         THEN Fail(t, "failed to get host ID: " \o getObjectID(m[hosts[i].name]).err)
         ELSE EnsureHosts(HostWritten(UpdateObject(t, "hosts", m[hosts[i].name].id,
                                                   HostData(hosts[i], inventoryID)),
                                      "update", hosts[i].name),
                          inventoryID, hosts, i + 1, m)
    ELSE EnsureHosts(HostWritten(CreateObject(t, "hosts", HostData(hosts[i], inventoryID)),
                                 "create", hosts[i].name),
                     inventoryID, hosts, i + 1, m)

\* the name the range over existingHostMap yields next.  Go ranges over a
\* map in an unspecified order: the thread's desc decides between ascending
\* and descending host id
NextName(m, names, desc) ==
    CHOOSE x \in names : \A y \in names : IF desc THEN m[y].id <= m[x].id
                                          ELSE m[x].id <= m[y].id

\* the loop of reconcileHosts over existingHostMap: delete the undeclared
\* names, stop at the first error
RECURSIVE PruneHosts(_, _, _)
PruneHosts(t, m, names) ==
    IF t.err # "" \/ names = {} THEN t
    ELSE IF getObjectID(m[NextName(m, names, t.desc)]).err # ""
    THEN Fail(t, "failed to get host ID for deletion: "
                 \o getObjectID(m[NextName(m, names, t.desc)]).err)
    ELSE PruneHosts(HostWritten(DeleteObject(t, "hosts", m[NextName(m, names, t.desc)].id),
                                "delete", NextName(m, names, t.desc)),
                    m, names \ {NextName(m, names, t.desc)})

\* reconcileHosts from the host listing on
reconcileHostsListed(l, inventoryID, desiredHosts) ==
    IF l.err # "" THEN Fail(l, "failed to list existing hosts: " \o l.err)
    ELSE PruneHosts(EnsureHosts(l, inventoryID, desiredHosts, 1, ExistingHostMap(l)),
                    ExistingHostMap(l),
                    DOMAIN ExistingHostMap(l)
                        \ { desiredHosts[i].name : i \in 1..Len(desiredHosts) })

reconcileHosts(t, inventoryID, desiredHosts) ==
    reconcileHostsListed(ListHosts(t, inventoryID), inventoryID, desiredHosts)

\* an EnsureInventory that writes no description
InventoryDataUndescribed(is) ==
    [name |-> is.name, description |-> "", variables |-> is.variables,
     organization |-> orgID]

\* the field map EnsureInventory writes
InventoryData(is) ==
    [name |-> is.name, description |-> is.description, variables |-> is.variables,
     organization |-> orgID]

\* EnsureInventory after reconcileHosts
HostsReconciled(h, inventory, name) ==
    IF h.err # ""
    THEN Fail(h, "failed to reconcile hosts for inventory '" \o name \o "': " \o h.err)
    ELSE Done(h, inventory)

\* an EnsureInventory that reconciles the hosts whatever the declared list holds
EnsureInventoryHostsAlways(wr, is) ==
    IF wr.err # "" THEN wr
    ELSE IF getObjectID(wr.obj).err # ""
    THEN Fail(wr, "failed to get inventory ID for host operations in '" \o is.name \o "': "
                  \o getObjectID(wr.obj).err)
    ELSE HostsReconciled(reconcileHosts(wr, wr.obj.id, is.hosts), wr.obj, is.name)

\* EnsureInventory from the create or update on
EnsureInventoryHosts(wr, is) ==
    IF wr.err # "" THEN wr
    ELSE IF getObjectID(wr.obj).err # ""
    THEN Fail(wr, "failed to get inventory ID for host operations in '" \o is.name \o "': "
                  \o getObjectID(wr.obj).err)
    ELSE IF Len(is.hosts) > 0
    THEN HostsReconciled(reconcileHosts(wr, wr.obj.id, is.hosts), wr.obj, is.name)
    ELSE wr

\* EnsureInventory from the lookup on
EnsureInventoryFound(f, is) ==
    IF f.err # "" THEN Fail(f, "failed to check if inventory exists: " \o f.err)
    ELSE IF IsNil(f.obj)
    THEN EnsureInventoryHosts(Created(CreateObject(f, "inventories", InventoryData(is)),
                                      "inventory", " '" \o is.name \o "'"), is)
    ELSE IF getObjectID(f.obj).err # ""
    THEN Fail(f, "failed to get ID from existing inventory '" \o is.name \o "': "
                 \o getObjectID(f.obj).err)
    ELSE EnsureInventoryHosts(Updated(UpdateObject(f, "inventories", f.obj.id,
                                                   InventoryData(is)), "inventory"), is)

EnsureInventory(t, is) ==
    EnsureInventoryFound(FindObjectByName(t, "inventories", is.name), is)

DeleteInventory(t, name) ==
    DeleteFound(FindObjectByName(t, "inventories", name), "inventories",
                "failed to check if inventory exists: ", "", "")

----------------------------------------------------------------------------
(* pkg/awx/jobtemplates.go *)

GetJobTemplate(t, name) == FindObjectByName(t, "job_templates", name)

\* a relation given as a bare id, after the GET of the object it names
RelationFetched(g, wanted) ==
    IF g.err # "" THEN Verdict(g, FALSE) ELSE Verdict(g, FieldIs(g.obj, "name", wanted))

\* one relation of a job template against the declared name: an embedded
\* object is compared by its name, a bare id is fetched first
RelationMatches(t, jt, field, kind, wanted) ==
    IF ~Has(jt, field) THEN Verdict(t, FALSE)
    ELSE IF jt[field].ref = "object" THEN Verdict(t, FieldIs(jt[field], "name", wanted))
    ELSE IF jt[field].ref # "id" THEN Verdict(t, FALSE)
    ELSE RelationFetched(GetObject(t, kind, jt[field].id), wanted)

\* IsJobTemplateInDesiredState from the inventory relation on
InventoryRelationChecked(i, jt, js) ==
    IF ~i.ok THEN i
    ELSE Verdict(i, js.extraVars # "" => FieldIs(jt, "extra_vars", js.extraVars))

\* IsJobTemplateInDesiredState from the project relation on
ProjectRelationChecked(p, jt, js) ==
    IF ~p.ok THEN p
    ELSE InventoryRelationChecked(
             RelationMatches(p, jt, "inventory", "inventories", js.inventoryName), jt, js)

IsJobTemplateInDesiredState(t, jt, js) ==
    IF ~( /\ FieldIs(jt, "name", js.name)
          /\ FieldIs(jt, "description", js.description)
          /\ FieldIs(jt, "playbook", js.playbook) )
    THEN Verdict(t, FALSE)
    ELSE ProjectRelationChecked(
             RelationMatches(t, jt, "project", "projects", js.projectName), jt, js)

\* the field map EnsureJobTemplate writes (fixed literals left out)
JobTemplateData(js, projectID, inventoryID) ==
    LET base == [name |-> js.name, description |-> js.description,
                 project |-> RefId(projectID), inventory |-> RefId(inventoryID),
                 playbook |-> js.playbook]
    IN  IF js.extraVars # "" THEN Merge(base, [extra_vars |-> js.extraVars]) ELSE base

\* EnsureJobTemplate from the inventory lookup on: create or update
EnsureJobTemplateWrite(vf, jobTemplate, projectID, js) ==
    IF vf.err # ""
    THEN Fail(vf, "failed to find inventory " \o js.inventoryName \o ": " \o vf.err)
    ELSE IF IsNil(vf.obj) THEN Fail(vf, "inventory " \o js.inventoryName \o " not found")
    ELSE IF getObjectID(vf.obj).err # ""
    THEN Fail(vf, "failed to get inventory ID: " \o getObjectID(vf.obj).err)
    ELSE IF IsNil(jobTemplate)
    THEN Created(CreateObject(vf, "job_templates",
                              JobTemplateData(js, projectID, vf.obj.id)),
                 "job template", " '" \o js.name \o "'")
    ELSE IF getObjectID(jobTemplate).err # ""
    THEN Fail(vf, "failed to get ID from existing job template '" \o js.name \o "': "
                  \o getObjectID(jobTemplate).err)
    ELSE Updated(UpdateObject(vf, "job_templates", jobTemplate.id,
                              JobTemplateData(js, projectID, vf.obj.id)),
                 "job template")

\* an EnsureJobTemplate that does not check that the project was found
EnsureJobTemplateUnchecked(pf, jobTemplate, js) ==
    IF pf.err # "" THEN Fail(pf, "failed to find project " \o js.projectName \o ": " \o pf.err)
    ELSE EnsureJobTemplateWrite(FindObjectByName(pf, "inventories", js.inventoryName),
                                jobTemplate, IF IsNil(pf.obj) THEN 0 ELSE pf.obj.id, js)

\* EnsureJobTemplate from the project lookup on
EnsureJobTemplateProject(pf, jobTemplate, js) ==
    IF pf.err # "" THEN Fail(pf, "failed to find project " \o js.projectName \o ": " \o pf.err)
    ELSE IF IsNil(pf.obj) THEN Fail(pf, "project " \o js.projectName \o " not found")
    ELSE IF getObjectID(pf.obj).err # ""
    THEN Fail(pf, "failed to get project ID: " \o getObjectID(pf.obj).err)
    ELSE EnsureJobTemplateWrite(FindObjectByName(pf, "inventories", js.inventoryName),
                                jobTemplate, pf.obj.id, js)

\* EnsureJobTemplate from the job template lookup on
EnsureJobTemplateFound(f, js) ==
    IF f.err # "" THEN Fail(f, "failed to check if job template exists: " \o f.err)
    ELSE EnsureJobTemplateProject(FindObjectByName(f, "projects", js.projectName), f.obj, js)

EnsureJobTemplate(t, js) ==
    EnsureJobTemplateFound(FindObjectByName(t, "job_templates", js.name), js)

DeleteJobTemplate(t, name) ==
    DeleteFound(FindObjectByName(t, "job_templates", name), "job_templates",
                "failed to check if job template exists: ",
                "failed to get job template ID: ",
                "failed to delete job template " \o name \o ": ")

----------------------------------------------------------------------------
(* The AWXInstance controller: helpers *)

\* requeue delays, in seconds
RequeueShort == 30
RequeueRetry == 60

\* a pass that never asks for a delay
ResultAtOnce(after, err) == [done |-> TRUE, requeueAfter |-> 0, err |-> err]

\* ctrl.Result and error returned by a pass; NoResult while a pass runs
Result(after, err) == [done |-> TRUE, requeueAfter |-> after, err |-> err]
NoResult == [done |-> FALSE, requeueAfter |-> 0, err |-> ""]

KindWord(kind) ==
    IF kind = "projects" THEN "project"
    ELSE IF kind = "inventories" THEN "inventory"
    ELSE "job template"

Idle == [phase |-> "idle", i |-> 0]
At(phase, i) == [phase |-> phase, i |-> i]

\* the oracles of len answers, drawn from the set answers, of which at most n
\* are not a plain 2xx
RECURSIVE Oracles(_, _, _)
Oracles(len, n, answers) ==
    IF n = 0 THEN {[j \in 1..len |-> "ok"]}
    ELSE { [o EXCEPT ![j] = x] :
             o \in Oracles(len, n - 1, answers), j \in 1..len, x \in answers }

FaultsOf(o) == Cardinality({ j \in DOMAIN o : o[j] # "ok" })

\* the HTTP calls among the entries of a log
HttpCalls(log) == SelectSeq(log, LAMBDA e : e.verb \in HttpVerbs)

\* a finished thread used its oracle when each failure the oracle holds was
\* consumed by a call, an error text with "404" only by a GET or a DELETE, the
\* shape of a list only by a list call and the shape of a create only by a POST
Uses(t) ==
    \A j \in DOMAIN t.o :
        t.o[j] # "ok" =>
            /\ j <= t.n
            /\ HttpCalls(t.log)[Len(HttpCalls(t.log)) - t.n + j].verb
                   \in IF t.o[j] = "e404" THEN {"GET", "DELETE"}
                       ELSE IF t.o[j] = "bare" THEN {"LIST"}
                       ELSE IF t.o[j] \in CreateAnswers THEN {"POST"}
                       ELSE HttpVerbs

\* the declared resources with the inventories first
InventoriesFirst(spec) ==
    [i \in 1..Len(spec.inventories) |-> [kind |-> "inventories", spec |-> spec.inventories[i]]]
    \o [i \in 1..Len(spec.projects) |-> [kind |-> "projects", spec |-> spec.projects[i]]]
    \o [i \in 1..Len(spec.jobTemplates) |-> [kind |-> "job_templates", spec |-> spec.jobTemplates[i]]]

\* the declared resources in the order the phases of a pass visit them
WorkList(spec) ==
    [i \in 1..Len(spec.projects) |-> [kind |-> "projects", spec |-> spec.projects[i]]]
    \o [i \in 1..Len(spec.inventories) |-> [kind |-> "inventories", spec |-> spec.inventories[i]]]
    \o [i \in 1..Len(spec.jobTemplates) |-> [kind |-> "job_templates", spec |-> spec.jobTemplates[i]]]

\* finalization in the order of creation
FinalizeInCreationOrder(spec) == WorkList(spec)

\* the declared resources in the order finalization visits them
FinalizeList(spec) ==
    [i \in 1..Len(spec.jobTemplates) |-> [kind |-> "job_templates", spec |-> spec.jobTemplates[i]]]
    \o [i \in 1..Len(spec.inventories) |-> [kind |-> "inventories", spec |-> spec.inventories[i]]]
    \o [i \in 1..Len(spec.projects) |-> [kind |-> "projects", spec |-> spec.projects[i]]]

\* the status map of a kind
StatusField(kind) ==
    IF kind = "projects" THEN "projectStatuses"
    ELSE IF kind = "inventories" THEN "inventoryStatuses"
    ELSE "jobTemplateStatuses"

\* a status entry written into a fresh map
SetStatusAlone(status, kind, name, v) ==
    [status EXCEPT ![StatusField(kind)].m = MapSet(<< >>, name, v)]

\* a status entry written together with an emptied conditions list
SetStatusResetting(status, kind, name, v) ==
    [status EXCEPT ![StatusField(kind)].m = MapSet(@, name, v), !.conditions = << >>]

\* instance.Status.<Kind>Statuses[name] = v
SetStatus(status, kind, name, v) ==
    [status EXCEPT ![StatusField(kind)].m = MapSet(@, name, v)]

\* a write of a status entry finds its map nil: the Go runtime panics
NilMapWrite(status, kind) == ~status[StatusField(kind)].alloc
NilMapPanic == "panic: assignment to entry in nil map"

\* a SetStatusCondition that appends whatever the list holds
AppendCondition(conds, c) == Append(conds, c)

\* meta.SetStatusCondition: replace the condition of the same type, or append
SetStatusCondition(conds, c) ==
    IF \E i \in 1..Len(conds) : conds[i].type = c.type
    THEN [i \in 1..Len(conds) |-> IF conds[i].type = c.type THEN c ELSE conds[i]]
    ELSE Append(conds, c)

Condition(status, reason) == [type |-> "Ready", status |-> status, reason |-> reason]

\* the status as the API server stores it: empty maps are omitted (omitempty)
\* and read back as nil
Stored(status) ==
    [status EXCEPT !.projectStatuses.alloc = ~IsNil(status.projectStatuses.m),
                   !.inventoryStatuses.alloc = ~IsNil(status.inventoryStatuses.m),
                   !.jobTemplateStatuses.alloc = ~IsNil(status.jobTemplateStatuses.m)]

\* the manager calls of a phase, dispatched on the kind
Lookup(t, item) ==
    IF item.kind = "projects" THEN GetProject(t, item.spec.name)
    ELSE IF item.kind = "inventories" THEN GetInventory(t, item.spec.name)
    ELSE GetJobTemplate(t, item.spec.name)

InDesiredState(t, item, obj) ==
    IF item.kind = "projects" THEN Verdict(t, IsProjectInDesiredState(obj, item.spec))
    ELSE IF item.kind = "inventories" THEN IsInventoryInDesiredState(t, obj, item.spec)
    ELSE IsJobTemplateInDesiredState(t, obj, item.spec)

Ensure(t, item) ==
    IF item.kind = "projects" THEN EnsureProject(t, item.spec)
    ELSE IF item.kind = "inventories" THEN EnsureInventory(t, item.spec)
    ELSE EnsureJobTemplate(t, item.spec)

Delete(t, item) ==
    IF item.kind = "projects" THEN DeleteProject(t, item.spec.name)
    ELSE IF item.kind = "inventories" THEN DeleteInventory(t, item.spec.name)
    ELSE DeleteJobTemplate(t, item.spec.name)

\* the thread after a manager call of the loop returned: the call is logged
Noted(t, verb, item, res) ==
    [t EXCEPT !.log = Append(@, Entry(t.phase, verb, item.kind, item.spec.name, 0, res))]

\* the thread after Ensure or Delete returned
Returned(r, verb, item) == Noted(r, verb, item, IF r.err = "" THEN "ok" ELSE "err")

World == [remote |-> remote, nextId |-> nextId]

----------------------------------------------------------------------------
(* Reconcile, one action per step of a pass *)

\* a Reconcile that leaves the status maps as it read them
MapsLeftNil(status) == status

\* the status maps allocated at the top of Reconcile
InitStatusMaps(status) ==
    [status EXCEPT !.projectStatuses.alloc = TRUE,
                   !.inventoryStatuses.alloc = TRUE,
                   !.jobTemplateStatuses.alloc = TRUE]

\* r.Get finds no object: the pass returns at once
ReconcileGone ==
    /\ pc.phase = "idle"
    /\ ~k8s.exists
    /\ calls' = << >>
    /\ result' = Result(0, "")
    /\ UNCHANGED <<remote, nextId, k8s, mem, pc, faults, apiFaults, edits>>

\* a pass over a deleted instance that finalizes whatever finalizer it finds
FinalizingAlways(inst, kept) ==
    /\ mem' = inst
    /\ k8s' = kept
    /\ pc' = At("finalize", 1)
    /\ result' = NoResult

\* the instance carries a deletion timestamp: finalization when it holds the
\* operator's finalizer, and the return without any call when it does not
Finalizing(inst, kept) ==
    /\ mem' = inst
    /\ k8s' = kept
    /\ IF k8s.finalizer
       THEN pc' = At("finalize", 1) /\ result' = NoResult
       ELSE pc' = Idle /\ result' = Result(0, "")

\* a pass that goes on whether or not the finalizer was stored
FinalizerUnchecked(inst, kept, kf) ==
    /\ mem' = [inst EXCEPT !.finalizer = TRUE]
    /\ k8s' = IF kf = "update" THEN kept ELSE [kept EXCEPT !.finalizer = TRUE]
    /\ pc' = At("conn", 0)
    /\ result' = NoResult

\* AddFinalizer and r.Update on an instance without the finalizer: the pass
\* returns the error when the update fails (kf = "update")
FinalizerAdded(inst, kept, kf) ==
    IF kf = "update"
    THEN /\ mem' = [inst EXCEPT !.finalizer = TRUE] /\ k8s' = kept
         /\ pc' = Idle /\ result' = Result(0, "update failed")
    ELSE /\ mem' = [inst EXCEPT !.finalizer = TRUE]
         /\ k8s' = [kept EXCEPT !.finalizer = TRUE]
         /\ pc' = At("conn", 0) /\ result' = NoResult

\* from r.Get to the finalizer: status maps, the first LastConnectionCheck
\* stamp, the deletion check and AddFinalizer.  kf names the API server
\* write that fails in this step, if one does.
BeginPass ==
    /\ pc.phase = "idle"
    /\ k8s.exists
    /\ \E kf \in {"none", "status", "update"} :
        LET st0   == InitStatusMaps(k8s.status)
            stamp == st0.lastConnectionCheck = "zero"
            st1   == IF stamp THEN [st0 EXCEPT !.lastConnectionCheck = "recent"] ELSE st0
            inst  == [spec |-> k8s.spec, deleting |-> k8s.deleting,
                      finalizer |-> k8s.finalizer, status |-> st1,
                      changed |-> FALSE, connErr |-> ""]
            kept  == IF stamp THEN [k8s EXCEPT !.status = Stored(st1)] ELSE k8s
        IN  /\ kf # "none" => apiFaults < MaxApiFaults
            /\ kf = "status" => stamp
            /\ kf = "update" => ~k8s.deleting /\ ~k8s.finalizer
            /\ apiFaults' = apiFaults + (IF kf = "none" THEN 0 ELSE 1)
            /\ calls' = << >>
            /\ UNCHANGED <<remote, nextId, faults, edits>>
            /\ IF kf = "status"
               THEN /\ mem' = inst /\ k8s' = k8s /\ pc' = Idle
                    /\ result' = Result(0, "status update failed")
               ELSE IF k8s.deleting
               THEN Finalizing(inst, kept)
               ELSE IF k8s.finalizer
               THEN /\ mem' = inst /\ k8s' = kept
                    /\ pc' = At("conn", 0) /\ result' = NoResult
               ELSE FinalizerAdded(inst, kept, kf)

\* testConnection: the ping and the error text built from it
testConnection(t) ==
    IF Answer(t) = "ok" THEN Done(Sent(t, "GET", "ping", "", 0, "ok"), Nil)
    ELSE Fail(Sent(t, "GET", "ping", "", 0, Answer(t)),
              "Network connectivity issue - check network routes and firewall rules: "
              \o "failed to connect to AWX: " \o ErrText(Answer(t)))

\* a pass that goes on whatever the connection test says
NeverStops(connectionErr, external) == FALSE

\* the pass ends at a failed connection test of an external instance
StopsPass(connectionErr, external) == connectionErr # "" /\ external

\* a pass that takes every connection test for the periodic one
PeriodicAlways(status) == TRUE

\* timeSinceLastCheck >= 30 * time.Second, of the timestamp the pass holds
Periodic(status) == status.lastConnectionCheck = "old"

\* Reconcile from the return of testConnection to the drift phase: the
\* periodic check's status update (kf = "check" when it fails), and the early
\* return for an external instance (kf = "condition" when its update fails)
ConnectionTested(t, kf) ==
    LET periodic == Periodic(mem.status)
        st1      == IF periodic
                    THEN [mem.status EXCEPT
                             !.lastConnectionCheck = "recent",
                             !.connectionStatus =
                                 IF t.err # "" THEN FailedPrefix \o t.err ELSE "Connected"]
                    ELSE mem.status
        stop     == StopsPass(t.err, mem.spec.externalInstance)
    IN  /\ Uses(t)
        /\ kf # "none" => apiFaults < MaxApiFaults
        /\ kf = "check" => periodic
        /\ kf = "condition" => stop
        /\ faults' = faults + FaultsOf(t.o)
        /\ apiFaults' = apiFaults + (IF kf = "none" THEN 0 ELSE 1)
        /\ calls' = t.log
        /\ UNCHANGED <<remote, nextId, edits>>
        /\ IF kf = "check"
           THEN /\ mem' = [mem EXCEPT !.status = st1, !.connErr = t.err]
                /\ k8s' = k8s
                /\ pc' = Idle
                /\ result' = Result(0, "status update failed")
           ELSE IF stop
           THEN /\ mem' = [mem EXCEPT !.connErr = t.err,
                               !.status = [st1 EXCEPT !.conditions = SetStatusCondition(
                                              @, Condition("False", "ConnectionFailed"))]]
                /\ k8s' = IF kf = "condition"
                          THEN (IF periodic THEN [k8s EXCEPT !.status = Stored(st1)] ELSE k8s)
                          ELSE [k8s EXCEPT !.status = Stored(
                                   [st1 EXCEPT !.conditions = SetStatusCondition(
                                       @, Condition("False", "ConnectionFailed"))])]
                /\ pc' = Idle
                /\ result' = Result(RequeueShort, t.err)
           ELSE /\ mem' = [mem EXCEPT !.status = st1, !.connErr = t.err]
                /\ k8s' = IF periodic THEN [k8s EXCEPT !.status = Stored(st1)] ELSE k8s
                /\ pc' = At("drift", 1)
                /\ result' = NoResult

\* the connection test of a pass
TestConnection ==
    /\ pc.phase = "conn"
    /\ \E o \in Oracles(MaxOpCalls, MaxFaults - faults, Outcomes), kf \in {"none", "check", "condition"} :
          ConnectionTested(testConnection(Thread("conn", World, calls, o, FALSE)), kf)

\* reconcileInternalChanges for one declared resource, after its Ensure
DriftEnsured(e, item) ==
    IF e.err # ""
    THEN Fail(Returned(e, "ensure", item),
              "failed to reconcile " \o KindWord(item.kind) \o " " \o item.spec.name
              \o ": " \o e.err)
    ELSE Returned(e, "ensure", item)

\* a drift phase that ensures whatever the comparison says
DriftAlwaysEnsured(m, item) ==
    DriftEnsured(Ensure(Noted(m, "matches", item, IF m.ok THEN "true" ELSE "false"), item),
                 item)

\* ... after the comparison with the declared spec
DriftCompared(m, item) ==
    IF m.ok THEN Noted(m, "matches", item, "true")
    ELSE DriftEnsured(Ensure(Noted(m, "matches", item, "false"), item), item)

\* ... after the lookup: ensure when the object is absent or differs
DriftLooked(f, item) ==
    IF f.err # ""
    THEN Fail(Noted(f, "lookup", item, "err"),
              "failed to get " \o KindWord(item.kind) \o " " \o item.spec.name
              \o ": " \o f.err)
    ELSE IF IsNil(f.obj)
    THEN DriftEnsured(Ensure(Noted(f, "lookup", item, "absent"), item), item)
    ELSE DriftCompared(InDesiredState(Noted(f, "lookup", item, "present"), item, f.obj), item)

\* what the pass does with the outcome r for one resource of the drift phase
DriftReturned(r, item) ==
    /\ Uses(r)
    /\ faults' = faults + FaultsOf(r.o)
    /\ calls' = r.log
    /\ remote' = r.w.remote
    /\ nextId' = r.w.nextId
    /\ UNCHANGED <<k8s, apiFaults, edits>>
    /\ IF r.err # ""
       THEN /\ mem' = mem
            /\ pc' = Idle
            /\ result' = Result(RequeueRetry, r.err)
       ELSE IF Last(r.log).verb = "ensure" /\ NilMapWrite(mem.status, item.kind)
       THEN /\ mem' = mem
            /\ pc' = Idle
            /\ result' = Result(0, NilMapPanic)
       ELSE /\ mem' = IF Last(r.log).verb = "ensure"
                      THEN [mem EXCEPT !.changed = TRUE,
                                       !.status = SetStatus(@, item.kind, item.spec.name,
                                                            ReconciledCorrected)]
                      ELSE mem
            /\ pc' = At("drift", pc.i + 1)
            /\ result' = result

\* reconcileInternalChanges, one declared resource: look it up, compare it,
\* and ensure it when it is absent or differs
DriftStep ==
    /\ pc.phase = "drift"
    /\ pc.i <= Len(WorkList(mem.spec))
    /\ \E o \in Oracles(MaxOpCalls, MaxFaults - faults, Outcomes), desc \in BOOLEAN :
          DriftReturned(DriftLooked(Lookup(Thread("drift", World, calls, o, desc),
                                           WorkList(mem.spec)[pc.i]),
                                    WorkList(mem.spec)[pc.i]),
                        WorkList(mem.spec)[pc.i])

\* back in Reconcile: the status update that follows a drift correction
DriftDone ==
    /\ pc.phase = "drift"
    /\ pc.i > Len(WorkList(mem.spec))
    /\ \E kf \in BOOLEAN :
        /\ kf => mem.changed /\ apiFaults < MaxApiFaults
        /\ apiFaults' = apiFaults + (IF kf THEN 1 ELSE 0)
        /\ UNCHANGED <<remote, nextId, mem, calls, faults, edits>>
        /\ IF kf
           THEN k8s' = k8s /\ pc' = Idle /\ result' = Result(0, "status update failed")
           ELSE /\ k8s' = IF mem.changed THEN [k8s EXCEPT !.status = Stored(mem.status)] ELSE k8s
                /\ pc' = At("each", 1)
                /\ result' = result

\* per-kind loops that go on to the next resource after a failure
EachContinued(e, item, kf) ==
    /\ Uses(e)
    /\ ~kf
    /\ faults' = faults + FaultsOf(e.o)
    /\ calls' = e.log
    /\ remote' = e.w.remote
    /\ nextId' = e.w.nextId
    /\ mem' = [mem EXCEPT !.status = SetStatus(@, item.kind, item.spec.name,
                                               IF e.err # "" THEN FailedPrefix \o e.err
                                               ELSE Reconciled)]
    /\ pc' = At("each", pc.i + 1)
    /\ UNCHANGED <<k8s, result, apiFaults, edits>>

\* what the pass does with the outcome e of one Ensure of the per-kind loops:
\* "Reconciled", or "Failed: ...", a status update (kf when it fails) and the return
EachReturned(e, item, kf) ==
    /\ Uses(e)
    /\ kf => e.err # "" /\ apiFaults < MaxApiFaults
    /\ faults' = faults + FaultsOf(e.o)
    /\ apiFaults' = apiFaults + (IF kf THEN 1 ELSE 0)
    /\ calls' = e.log
    /\ remote' = e.w.remote
    /\ nextId' = e.w.nextId
    /\ mem' = IF NilMapWrite(mem.status, item.kind) THEN mem
              ELSE [mem EXCEPT !.status = SetStatus(@, item.kind, item.spec.name,
                                                    IF e.err # "" THEN FailedPrefix \o e.err
                                                    ELSE Reconciled)]
    /\ UNCHANGED edits
    /\ IF NilMapWrite(mem.status, item.kind)
       THEN ~kf /\ k8s' = k8s /\ pc' = Idle /\ result' = Result(0, NilMapPanic)
       ELSE IF e.err = ""
       THEN k8s' = k8s /\ pc' = At("each", pc.i + 1) /\ result' = result
       ELSE IF kf
       THEN k8s' = k8s /\ pc' = Idle /\ result' = Result(0, "status update failed")
       ELSE /\ k8s' = [k8s EXCEPT !.status = Stored(mem'.status)]
            /\ pc' = Idle
            /\ result' = Result(RequeueRetry, e.err)

\* the per-kind loops of Reconcile, one declared resource
EachStep ==
    /\ pc.phase = "each"
    /\ pc.i <= Len(WorkList(mem.spec))
    /\ \E o \in Oracles(MaxOpCalls, MaxFaults - faults, Outcomes), desc \in BOOLEAN, kf \in BOOLEAN :
          EachReturned(Returned(Ensure(Thread("each", World, calls, o, desc),
                                       WorkList(mem.spec)[pc.i]),
                                "ensure", WorkList(mem.spec)[pc.i]),
                       WorkList(mem.spec)[pc.i], kf)

\* the end of a pass that got through: Ready=True, status update, requeue
Finish ==
    /\ pc.phase = "each"
    /\ pc.i > Len(WorkList(mem.spec))
    /\ \E kf \in BOOLEAN :
        /\ kf => apiFaults < MaxApiFaults
        /\ apiFaults' = apiFaults + (IF kf THEN 1 ELSE 0)
        /\ mem' = [mem EXCEPT !.status.conditions =
                      SetStatusCondition(@, Condition("True", "ReconciliationSucceeded"))]
        /\ pc' = Idle
        /\ UNCHANGED <<remote, nextId, calls, faults, edits>>
        /\ IF kf
           THEN k8s' = k8s /\ result' = Result(0, "status update failed")
           ELSE /\ k8s' = [k8s EXCEPT !.status = Stored(mem'.status)]
                /\ result' = Result(RequeueShort, "")

\* a finalization that goes on to the next resource after a failure
FinalizeContinued(d) ==
    /\ Uses(d)
    /\ faults' = faults + FaultsOf(d.o)
    /\ calls' = d.log
    /\ remote' = d.w.remote
    /\ nextId' = d.w.nextId
    /\ pc' = At("finalize", pc.i + 1)
    /\ UNCHANGED <<k8s, mem, result, apiFaults, edits>>

\* what the pass does with the outcome d of one Delete of finalizeAWXInstance
FinalizeReturned(d) ==
    /\ Uses(d)
    /\ faults' = faults + FaultsOf(d.o)
    /\ calls' = d.log
    /\ remote' = d.w.remote
    /\ nextId' = d.w.nextId
    /\ UNCHANGED <<k8s, mem, apiFaults, edits>>
    /\ IF d.err # ""
       THEN pc' = Idle /\ result' = Result(0, d.err)
       ELSE pc' = At("finalize", pc.i + 1) /\ result' = result

\* finalizeAWXInstance, one declared resource: delete it by name
FinalizeStep ==
    /\ pc.phase = "finalize"
    /\ pc.i <= Len(FinalizeList(mem.spec))
    /\ \E o \in Oracles(MaxOpCalls, MaxFaults - faults, Outcomes) :
          FinalizeReturned(Returned(Delete(Thread("finalize", World, calls, o, FALSE),
                                           FinalizeList(mem.spec)[pc.i]),
                                    "delete", FinalizeList(mem.spec)[pc.i]))

\* back in Reconcile: RemoveFinalizer and r.Update; the API server drops an
\* object that is being deleted once it has no finalizer, and keeps it while
\* the finalizer of another controller holds it (held)
RemoveFinalizer ==
    /\ pc.phase = "finalize"
    /\ pc.i > Len(FinalizeList(mem.spec))
    /\ \E kf \in BOOLEAN, held \in BOOLEAN :
        /\ kf => ~held /\ apiFaults < MaxApiFaults
        /\ apiFaults' = apiFaults + (IF kf THEN 1 ELSE 0)
        /\ mem' = [mem EXCEPT !.finalizer = FALSE]
        /\ pc' = Idle
        /\ UNCHANGED <<remote, nextId, calls, faults, edits>>
        /\ IF kf
           THEN k8s' = k8s /\ result' = Result(0, "update failed")
           ELSE /\ k8s' = [k8s EXCEPT !.finalizer = FALSE, !.exists = held]
                /\ result' = Result(0, "")

----------------------------------------------------------------------------
(* The environment *)

\* the user deletes the instance: it gets a deletion timestamp, and is gone
\* at once when it carries no finalizer, neither the operator's nor another
\* controller's (held)
UserDelete ==
    /\ pc.phase = "idle"
    /\ k8s.exists
    /\ ~k8s.deleting
    /\ \E held \in BOOLEAN :
          k8s' = [k8s EXCEPT !.deleting = TRUE, !.exists = k8s.finalizer \/ held]
    /\ UNCHANGED <<remote, nextId, mem, pc, calls, result, faults, apiFaults, edits>>

\* thirty seconds pass since the stored connection check
Tick ==
    /\ pc.phase = "idle"
    /\ k8s.exists
    /\ k8s.status.lastConnectionCheck = "recent"
    /\ k8s' = [k8s EXCEPT !.status.lastConnectionCheck = "old"]
    /\ UNCHANGED <<remote, nextId, mem, pc, calls, result, faults, apiFaults, edits>>

\* the names the instance declares, per endpoint
DeclaredNames(spec, kind) ==
    IF kind = "projects" THEN { spec.projects[i].name : i \in 1..Len(spec.projects) }
    ELSE IF kind = "inventories" THEN { spec.inventories[i].name : i \in 1..Len(spec.inventories) }
    ELSE IF kind = "job_templates" THEN { spec.jobTemplates[i].name : i \in 1..Len(spec.jobTemplates) }
    ELSE { }

\* somebody edits the description of a declared object directly in AWX
OutOfBandEdit ==
    /\ pc.phase = "idle"
    /\ edits < MaxEdits
    /\ \E kind \in {"projects", "inventories", "job_templates"} :
        \E x \in remote[kind] :
            /\ x.name \in DeclaredNames(k8s.spec, kind)
            /\ x.description # "edited"
            /\ remote' = [remote EXCEPT ![kind] = (@ \ {x}) \cup {[x EXCEPT !.description = "edited"]}]
    /\ edits' = edits + 1
    /\ UNCHANGED <<nextId, k8s, mem, pc, calls, result, faults, apiFaults>>

----------------------------------------------------------------------------
(* The specification *)

\* objects on the server that no instance declares
ForeignObjects ==
    [projects |-> { [id |-> 1, name |-> "PX", description |-> "x", scm_type |-> "manual",
                     organization |-> orgID, credential |-> RefNull] },
     inventories |-> { [id |-> 1, name |-> "IX", description |-> "x", variables |-> "",
                        organization |-> orgID] },
     job_templates |-> { [id |-> 1, name |-> "JX", description |-> "x", project |-> RefId(1),
                          inventory |-> RefId(1), playbook |-> "x.yml"] },
     hosts |-> { [id |-> 1, name |-> "hx", description |-> "x", inventory |-> 1,
                  variables |-> ""] },
     credentials |-> { }]

Init ==
    /\ remote = ForeignObjects
    /\ nextId = [e \in Endpoints |-> 2]
    /\ \E s \in { AWXInstanceSpec(e) : e \in BOOLEAN } :
          k8s = [exists |-> TRUE, deleting |-> FALSE, finalizer |-> FALSE,
                 spec |-> s, status |-> EmptyStatus]
    /\ mem = [spec |-> k8s.spec, deleting |-> FALSE, finalizer |-> FALSE,
              status |-> EmptyStatus, changed |-> FALSE, connErr |-> ""]
    /\ pc = Idle
    /\ calls = << >>
    /\ result = NoResult
    /\ faults = 0
    /\ apiFaults = 0
    /\ edits = 0

Next ==
    \/ ReconcileGone
    \/ BeginPass
    \/ TestConnection
    \/ DriftStep
    \/ DriftDone
    \/ EachStep
    \/ Finish
    \/ FinalizeStep
    \/ RemoveFinalizer
    \/ UserDelete
    \/ Tick
    \/ OutOfBandEdit

Spec == Init /\ [][Next]_vars

----------------------------------------------------------------------------
(* The same loop over small declarations: an instance that declares one     *)
(* project and nothing else, against a server that holds no object, and     *)
(* instances whose job template names a project or an inventory that        *)
(* neither they nor the server have.                                        *)

\* an instance that declares the project P1 and nothing else
OneProjectSpec ==
    [externalInstance |-> FALSE,
     projects |-> << ProjectSpec("P1", "git", "https://x/y.git", "main", "") >>,
     inventories |-> << >>,
     jobTemplates |-> << >>]

\* an instance whose job template J1 names the project and the inventory
DependentSpec(projectName, inventoryName) ==
    [externalInstance |-> FALSE,
     projects |-> << ProjectSpec("P1", "git", "https://x/y.git", "main", "") >>,
     inventories |-> << InventorySpec("I1", << >>) >>,
     jobTemplates |-> << JobTemplateSpec("J1", projectName, inventoryName) >>]

SmallSpecs ==
    {OneProjectSpec}
    \cup { DependentSpec(p, i) : p \in {"P1", "P9"}, i \in {"I1", "I9"} }

\* a server that holds no object
EmptyStore == [e \in Endpoints |-> { }]

InitSmall ==
    /\ \E s \in SmallSpecs :
          /\ k8s = [exists |-> TRUE, deleting |-> FALSE, finalizer |-> FALSE,
                    spec |-> s, status |-> EmptyStatus]
          /\ remote = IF s = OneProjectSpec THEN EmptyStore ELSE ForeignObjects
    /\ nextId = [e \in Endpoints |-> 2]
    /\ mem = [spec |-> k8s.spec, deleting |-> FALSE, finalizer |-> FALSE,
              status |-> EmptyStatus, changed |-> FALSE, connErr |-> ""]
    /\ pc = Idle
    /\ calls = << >>
    /\ result = NoResult
    /\ faults = 0
    /\ apiFaults = 0
    /\ edits = 0

\* the relation of a job template after the object it named was deleted
Unlinked(jt, field, id) ==
    IF jt[field].ref # "null" /\ jt[field].id = id THEN [jt EXCEPT ![field] = RefNull]
    ELSE jt

\* somebody deletes a declared project or inventory directly in AWX, at any
\* point of a pass; the server clears the relations that named it
OutOfBandDelete ==
    /\ edits < MaxEdits
    /\ \E kind \in {"projects", "inventories"} :
        \E x \in remote[kind] :
            /\ x.name \in DeclaredNames(k8s.spec, kind)
            /\ remote' = [remote EXCEPT
                   ![kind] = @ \ {x},
                   !["job_templates"] =
                       { Unlinked(jt, IF kind = "projects" THEN "project" ELSE "inventory",
                                  x.id) : jt \in @ }]
    /\ edits' = edits + 1
    /\ UNCHANGED <<nextId, k8s, mem, pc, calls, result, faults, apiFaults>>

SpecSmall == InitSmall /\ [][Next \/ OutOfBandDelete]_vars

----------------------------------------------------------------------------
(* reconcileInternalChanges called on its own, as the repository's test     *)
(* calls it: on an instance whose status maps are nil or allocated, against *)
(* a server that does not hold the declared objects.  k8s keeps the         *)
(* instance as it was handed in.                                            *)

InitDrift ==
    /\ remote \in {EmptyStore, ForeignObjects}
    /\ nextId = [e \in Endpoints |-> 2]
    /\ \E s \in SmallSpecs \cup { AWXInstanceSpec(e) : e \in BOOLEAN }, st \in {EmptyStatus, InitStatusMaps(EmptyStatus)} :
          /\ k8s = [exists |-> TRUE, deleting |-> FALSE, finalizer |-> TRUE,
                    spec |-> s, status |-> st]
          /\ mem = [spec |-> s, deleting |-> FALSE, finalizer |-> TRUE,
                    status |-> st, changed |-> FALSE, connErr |-> ""]
    /\ pc = At("drift", 1)
    /\ calls = << >>
    /\ result = NoResult
    /\ faults = 0
    /\ apiFaults = 0
    /\ edits = 0

\* reconcileInternalChanges returns (changed, nil)
DriftAlone ==
    /\ pc.phase = "drift"
    /\ pc.i > Len(WorkList(mem.spec))
    /\ pc' = Idle
    /\ result' = Result(0, "")
    /\ UNCHANGED <<remote, nextId, k8s, mem, calls, faults, apiFaults, edits>>

SpecDrift == InitDrift /\ [][DriftStep \/ DriftAlone]_vars

----------------------------------------------------------------------------
(* Ensure called twice in a row on one declared resource, from any of a     *)
(* range of remote stores.  In this specification mem holds the declared    *)
(* resource, the store the first call left, and whether every HTTP call of  *)
(* the first call was answered with success.                                *)

LabProject(id, description) ==
    Merge(ProjectData(ProjectSpec("P1", "git", "https://x/y.git", "", ""), Nil),
          [id |-> id, description |-> description])

LabInventory(id, description) ==
    Merge(InventoryData(InventorySpec("I1", << >>)), [id |-> id, description |-> description])

LabHost(id, name, description) ==
    Merge(HostData(HostSpec(name), 2), [id |-> id, description |-> description])

LabJobTemplate(id, description, project, inventory) ==
    [id |-> id, name |-> "J1", description |-> description, project |-> project,
     inventory |-> inventory, playbook |-> "site.yml"]

\* the objects a store may hold next to the foreign ones, per endpoint
LabProjects ==
    { {}, {LabProject(2, "d")}, {LabProject(2, "edited")},
      {LabProject(2, "edited"), LabProject(3, "d")} }

LabInventories == { {}, {LabInventory(2, "d")}, {LabInventory(2, "edited")} }

LabHosts ==
    { {}, {LabHost(2, "h1", "d")}, {LabHost(2, "h1", "edited"), LabHost(3, "h2", "d")},
      {LabHost(2, "h2", "d"), LabHost(3, "h3", "d")} }

LabJobTemplates ==
    { {}, {LabJobTemplate(2, "d", RefId(2), RefId(2))},
      {LabJobTemplate(2, "edited", RefObject(2, "P1"), RefObject(2, "I1"))} }

LabStores ==
    { [projects |-> ForeignObjects.projects \cup p,
       inventories |-> ForeignObjects.inventories \cup i,
       job_templates |-> ForeignObjects.job_templates \cup j,
       hosts |-> ForeignObjects.hosts \cup h,
       credentials |-> c] :
      p \in LabProjects, i \in LabInventories, j \in LabJobTemplates,
      h \in LabHosts, c \in { {}, {[id |-> 2, name |-> "c1"]} } }

\* the declared resources ensure is called on
LabItems ==
    { [kind |-> "projects", spec |-> ProjectSpec("P1", "git", "https://x/y.git", "", "")],
      [kind |-> "projects", spec |-> ProjectSpec("P1", "git", "https://x/y.git", "dev", "c1")],
      [kind |-> "projects", spec |-> ProjectSpec("P2", "manual", "", "", "")],
      [kind |-> "inventories", spec |-> InventorySpec("I1", << HostSpec("h1") >>)],
      [kind |-> "inventories", spec |-> InventorySpec("I1", << >>)],
      [kind |-> "job_templates", spec |-> JobTemplateSpec("J1", "P1", "I1")] }

InitEnsure ==
    /\ remote \in LabStores
    /\ nextId = [e \in Endpoints |-> 4]
    /\ k8s = [exists |-> FALSE, deleting |-> FALSE, finalizer |-> FALSE,
              spec |-> AWXInstanceSpec(FALSE), status |-> EmptyStatus]
    /\ \E item \in LabItems : mem = [item |-> item, after1 |-> remote, clean1 |-> FALSE]
    /\ pc = At("lab", 0)
    /\ calls = << >>
    /\ result = NoResult
    /\ faults = 0
    /\ apiFaults = 0
    /\ edits = 0

\* what is kept of the outcome e of the n-th call
EnsureReturned(e, n) ==
    /\ Uses(e)
    /\ faults' = faults + FaultsOf(e.o)
    /\ calls' = e.log
    /\ remote' = e.w.remote
    /\ nextId' = e.w.nextId
    /\ result' = Result(0, e.err)
    /\ pc' = At("lab", n)
    /\ mem' = IF n = 1
              THEN [mem EXCEPT !.after1 = e.w.remote, !.clean1 = FaultsOf(e.o) = 0]
              ELSE mem
    /\ UNCHANGED <<k8s, apiFaults, edits>>

EnsureOnce ==
    /\ pc = At("lab", 0)
    /\ \E o \in Oracles(MaxLabCalls, MaxFaults, Outcomes), desc \in BOOLEAN :
          EnsureReturned(Returned(Ensure(Thread("lab", World, calls, o, desc), mem.item),
                                  "ensure", mem.item), 1)

EnsureAgain ==
    /\ pc = At("lab", 1)
    /\ \E o \in Oracles(MaxLabCalls, MaxFaults - faults, Outcomes), desc \in BOOLEAN :
          EnsureReturned(Returned(Ensure(Thread("lab", World, calls, o, desc), mem.item),
                                  "ensure", mem.item), 2)

SpecEnsure == InitEnsure /\ [][EnsureOnce \/ EnsureAgain]_vars

----------------------------------------------------------------------------
(* One operation of the client or of a manager called on its own, against   *)
(* a server that may give any of the Answers.  mem holds the declared       *)
(* resource, the operation called, the id it was given, and the object or   *)
(* the truth value it returned.                                             *)

InitShapes ==
    \* a server that holds nothing, one that holds foreign objects alone, and
    \* those that also hold the credential c1, P1, I1 with host h1 and J1, with
    \* the relations of P1 and J1 delivered as bare ids or as embedded objects
    /\ remote \in {EmptyStore, ForeignObjects} \cup
           { [projects |-> ForeignObjects.projects
                           \cup {Merge(LabProject(2, "d"),
                                       [scm_branch |-> "dev", credential |-> c])},
              inventories |-> ForeignObjects.inventories \cup {LabInventory(2, "d")},
              job_templates |-> ForeignObjects.job_templates
                                \cup {LabJobTemplate(2, "d", r[1], r[2])},
              hosts |-> ForeignObjects.hosts \cup {LabHost(2, "h1", "d")},
              credentials |-> {[id |-> 2, name |-> "c1"]}] :
             c \in {RefNull, RefId(2), RefObject(2, "c1")},
             r \in {<< RefId(2), RefId(2) >>, << RefObject(2, "P1"), RefObject(2, "I1") >>} }
           \cup
           \* and those whose answers render the id of P1, I1, h1 and J1, of J1
           \* alone or of h1 alone in the way a: left out, a string holding the
           \* number, a string holding no number, or a value of another type
           { [projects |-> ForeignObjects.projects
                           \cup {Merge(LabProject(2, "d"), [idAs |-> a[1]])},
              inventories |-> ForeignObjects.inventories
                              \cup {Merge(LabInventory(2, "d"), [idAs |-> a[1]])},
              job_templates |-> ForeignObjects.job_templates
                                \cup {Merge(LabJobTemplate(2, "d", RefId(2), RefId(2)),
                                            [idAs |-> a[2]])},
              hosts |-> ForeignObjects.hosts
                        \cup {Merge(LabHost(2, "h1", "d"), [idAs |-> a[3]])},
              credentials |-> {[id |-> 2, name |-> "c1"]}] :
             a \in UNION { { << x, x, x >>, << "number", x, "number" >>,
                             << "number", "number", x >> } :
                           x \in {"none", "string", "word", "bool"} } }
    /\ nextId = [e \in Endpoints |-> 4]
    /\ k8s = [exists |-> FALSE, deleting |-> FALSE, finalizer |-> FALSE,
              spec |-> AWXInstanceSpec(FALSE), status |-> EmptyStatus]
    /\ \E item \in LabItems : mem = [item |-> item, op |-> "", id |-> 0, out |-> Nil, ok |-> FALSE]
    /\ pc = At("lab", 0)
    /\ calls = << >>
    /\ result = NoResult
    /\ faults = 0
    /\ apiFaults = 0
    /\ edits = 0

\* what is kept of the outcome r of the operation op called with id
ShapeReturned(r, op, id) ==
    /\ Uses(r)
    /\ faults' = faults + FaultsOf(r.o)
    /\ calls' = r.log
    /\ remote' = r.w.remote
    /\ nextId' = r.w.nextId
    /\ result' = Result(0, r.err)
    /\ pc' = At("lab", 1)
    /\ mem' = [mem EXCEPT !.op = op, !.id = id, !.out = r.obj, !.ok = r.ok]
    /\ UNCHANGED <<k8s, apiFaults, edits>>

\* c.DeleteObject(endpoint, id)
ClientDelete ==
    /\ pc = At("lab", 0)
    /\ \E o \in Oracles(MaxOpCalls, MaxShapes, Answers), id \in 1..2 :
          ShapeReturned(DeleteObject(Thread("lab", World, calls, o, FALSE),
                                     mem.item.kind, id), "delete", id)

\* c.ListObjects(endpoint, {"name": name})
ClientList ==
    /\ pc = At("lab", 0)
    /\ \E o \in Oracles(MaxOpCalls, MaxShapes, Answers) :
          ShapeReturned(ListObjects(Thread("lab", World, calls, o, FALSE),
                                    mem.item.kind, mem.item.spec.name), "list", 0)

\* c.CreateObject(endpoint, data)
ClientCreate ==
    /\ pc = At("lab", 0)
    /\ \E o \in Oracles(MaxOpCalls, MaxShapes, Answers) :
          ShapeReturned(CreateObject(Thread("lab", World, calls, o, FALSE), mem.item.kind,
                                     [name |-> mem.item.spec.name,
                                      description |-> mem.item.spec.description]),
                        "create", 0)

\* manager.Ensure<Kind>(spec)
ManagerEnsure ==
    /\ pc = At("lab", 0)
    /\ \E o \in Oracles(MaxLabCalls, MaxFaults, Answers), desc \in BOOLEAN :
          ShapeReturned(Ensure(Thread("lab", World, calls, o, desc), mem.item), "ensure", 0)

\* manager.Delete<Kind>(name)
ManagerDelete ==
    /\ pc = At("lab", 0)
    /\ \E o \in Oracles(MaxLabCalls, MaxFaults, Answers) :
          ShapeReturned(Delete(Thread("lab", World, calls, o, FALSE), mem.item),
                        "remove", 0)

\* manager.Is<Kind>InDesiredState(obj, spec) on an object the server holds
ManagerMatches ==
    /\ pc = At("lab", 0)
    /\ \E o \in Oracles(MaxOpCalls, MaxFaults, Answers), obj \in remote[mem.item.kind] :
          ShapeReturned(InDesiredState(Thread("lab", World, calls, o, FALSE), mem.item, obj),
                        "matches", obj.id)

SpecShapes ==
    InitShapes /\ [][ClientDelete \/ ClientList \/ ClientCreate \/ ManagerEnsure
                      \/ ManagerDelete \/ ManagerMatches]_vars

----------------------------------------------------------------------------
(* Requeued passes under fair scheduling.  An instance that exists is       *)
(* reconciled again after every pass: each return of Reconcile asks for a   *)
(* requeue or returns an error, which the work queue retries, so a pass     *)
(* that can begin does begin.  A pass that has begun runs to its return:    *)
(* Reconcile is one sequential function call whose requests block and time  *)
(* out, so the worker is back at idle again and again.                      *)

\* the declarations of SmallSpecs, one whose job template names objects that
\* only the server holds, one with a host, and one whose project names a
\* credential, which the server holds or not
InitLive ==
    /\ \E s \in SmallSpecs
               \cup {DependentSpec("PX", "IX"), AWXInstanceSpec(FALSE),
                     [OneProjectSpec EXCEPT !.projects[1].scmCredential = "c1"]} :
          /\ k8s = [exists |-> TRUE, deleting |-> FALSE, finalizer |-> FALSE,
                    spec |-> s, status |-> EmptyStatus]
          /\ remote \in IF s = OneProjectSpec THEN {EmptyStore}
                         ELSE IF s.projects[1].scmCredential # ""
                         THEN {EmptyStore,
                               [EmptyStore EXCEPT !.credentials = {[id |-> 1, name |-> "c1"]}]}
                         ELSE {ForeignObjects}
    /\ nextId = [e \in Endpoints |-> 2]
    /\ mem = [spec |-> k8s.spec, deleting |-> FALSE, finalizer |-> FALSE,
              status |-> EmptyStatus, changed |-> FALSE, connErr |-> ""]
    /\ pc = Idle
    /\ calls = << >>
    /\ result = NoResult
    /\ faults = 0
    /\ apiFaults = 0
    /\ edits = 0

SpecLive ==
    /\ InitLive
    /\ [][Next \/ OutOfBandDelete]_vars
    /\ WF_vars(BeginPass)
    /\ []<>(pc.phase = "idle")

----------------------------------------------------------------------------
(* The passes of two instances that declare one project each and target one *)
(* server, run by two workers whose remote calls interleave.  Every request *)
(* is answered with success.  pc.i holds the position of each worker in its *)
(* pass: 0 before the lookup of the drift phase, 1 and 2 before the lookup  *)
(* and the write of the EnsureProject of the drift phase, 3 and 4 before    *)
(* those of the EnsureProject of the main phase, 5 after the pass.  mem     *)
(* holds the server as it was, the two declared projects, what the last     *)
(* lookup of each worker found, and the status entry each pass wrote.       *)

InitPair ==
    /\ remote \in {EmptyStore, ForeignObjects,
                   [ForeignObjects EXCEPT !.projects = @ \cup {LabProject(2, "d")}]}
    /\ nextId = [e \in Endpoints |-> 4]
    /\ k8s = [exists |-> FALSE, deleting |-> FALSE, finalizer |-> FALSE,
              spec |-> AWXInstanceSpec(FALSE), status |-> EmptyStatus]
    /\ \E other \in {ProjectSpec("P1", "git", "https://x/y.git", "", ""),
                      [ProjectSpec("P1", "git", "https://x/y.git", "", "")
                          EXCEPT !.description = "b"],
                      ProjectSpec("P2", "manual", "", "", "")} :
          mem = [start |-> remote,
                 specs |-> << ProjectSpec("P1", "git", "https://x/y.git", "", ""), other >>,
                 found |-> << Nil, Nil >>,
                 status |-> << "", "" >>]
    /\ pc = At("pair", << 0, 0 >>)
    /\ calls = << >>
    /\ result = NoResult
    /\ faults = 0
    /\ apiFaults = 0
    /\ edits = 0

\* the next remote call of the pass of worker w, with what the pass does with
\* its answer: a lookup by name (GetProject, or the lookup EnsureProject
\* starts with), or the create or update EnsureProject ends with
PairStep(w) ==
    /\ pc.phase = "pair"
    /\ pc.i[w] < 5
    /\ IF pc.i[w] \in {0, 1, 3}
       THEN /\ calls' = GetProject(Thread("pair", World, calls, << >>, FALSE),
                                   mem.specs[w].name).log
            /\ mem' = [mem EXCEPT !.found[w] =
                           GetProject(Thread("pair", World, calls, << >>, FALSE),
                                      mem.specs[w].name).obj]
            /\ pc' = [pc EXCEPT !.i[w] =
                          IF /\ @ = 0
                             /\ ~IsNil(mem'.found[w])
                             /\ IsProjectInDesiredState(mem'.found[w], mem.specs[w])
                          THEN 3 ELSE @ + 1]
            /\ UNCHANGED <<remote, nextId>>
       ELSE /\ calls' = EnsureProjectWrite(Thread("pair", World, calls, << >>, FALSE),
                                           mem.found[w], mem.specs[w]).log
            /\ remote' = EnsureProjectWrite(Thread("pair", World, calls, << >>, FALSE),
                                            mem.found[w], mem.specs[w]).w.remote
            /\ nextId' = EnsureProjectWrite(Thread("pair", World, calls, << >>, FALSE),
                                            mem.found[w], mem.specs[w]).w.nextId
            /\ mem' = [mem EXCEPT !.status[w] =
                           IF EnsureProjectWrite(Thread("pair", World, calls, << >>, FALSE),
                                                 mem.found[w], mem.specs[w]).err # ""
                           THEN FailedPrefix
                                \o EnsureProjectWrite(
                                       Thread("pair", World, calls, << >>, FALSE),
                                       mem.found[w], mem.specs[w]).err
                           ELSE IF pc.i[w] = 2 THEN ReconciledCorrected ELSE Reconciled]
            /\ pc' = [pc EXCEPT !.i[w] = @ + 1]
    /\ UNCHANGED <<k8s, result, faults, apiFaults, edits>>

SpecPair == InitPair /\ [][PairStep(1) \/ PairStep(2)]_vars

----------------------------------------------------------------------------
(* The loop with a user who acts while a pass runs.  A status update that   *)
(* the API server would refuse because the instance changed under the pass  *)
(* is one of the failing writes of the pass.                                *)

\* the user deletes the instance while a pass over it runs: the pass goes on
\* with the copy it read
UserDeleteMidPass ==
    /\ pc.phase # "idle"
    /\ k8s.exists
    /\ ~k8s.deleting
    /\ k8s' = [k8s EXCEPT !.deleting = TRUE]
    /\ UNCHANGED <<remote, nextId, mem, pc, calls, result, faults, apiFaults, edits>>

\* the user takes a project, an inventory or a job template out of the
\* declared spec of a live instance, between passes or while a pass runs
UserEditsSpec ==
    /\ k8s.exists
    /\ ~k8s.deleting
    /\ edits < MaxEdits
    /\ \E f \in {"projects", "inventories", "jobTemplates"} :
          \E i \in 1..Len(k8s.spec[f]) :
              k8s' = [k8s EXCEPT !.spec[f] =
                         SelectSeq(@, LAMBDA x : x.name # k8s.spec[f][i].name)]
    /\ edits' = edits + 1
    /\ UNCHANGED <<remote, nextId, mem, pc, calls, result, faults, apiFaults>>

SpecUser == Init /\ [][Next \/ UserDeleteMidPass \/ UserEditsSpec]_vars

----------------------------------------------------------------------------
(* Properties *)

\* the entries a step adds to the log
NewCalls == SubSeq(calls', Len(calls) + 1, Len(calls'))

ResourceKinds == {"projects", "inventories", "job_templates"}

\* place of a kind in the order of finalization
Rank(kind) ==
    IF kind = "job_templates" THEN 1 ELSE IF kind = "inventories" THEN 2 ELSE 3

\* the status entry of a declared resource, "" when there is none
StatusEntry(status, kind, name) ==
    IF name \in DOMAIN status[StatusField(kind)].m
    THEN status[StatusField(kind)].m[name] ELSE ""

\* the declared names in the order of the per-kind phase
DeclaredOrder(spec) ==
    [i \in 1..Len(spec.projects) |-> <<"projects", spec.projects[i].name>>]
    \o [i \in 1..Len(spec.inventories) |-> <<"inventories", spec.inventories[i].name>>]
    \o [i \in 1..Len(spec.jobTemplates) |-> <<"job_templates", spec.jobTemplates[i].name>>]

\* the Delete calls of a finalization pass and the Ensure calls of the
\* per-kind phase, as the pass made them
Deletes == SelectSeq(calls, LAMBDA e : e.phase = "finalize" /\ e.verb = "delete")
EachEnsures == SelectSeq(calls, LAMBDA e : e.phase = "each" /\ e.verb = "ensure")

\* C1: within a finalization pass no delete of a declared job template is
\* issued after a delete of a declared inventory or project, and no delete of
\* a declared inventory after a delete of a declared project; this holds for
\* the Delete calls of the loop and for the HTTP DELETE requests they send.
C1_DeleteOrder ==
    \A i, j \in 1..Len(calls) :
        ( /\ i < j
          /\ calls[i].phase = "finalize" /\ calls[i].verb \in {"delete", "DELETE"}
          /\ calls[j].phase = "finalize" /\ calls[j].verb \in {"delete", "DELETE"} )
        => Rank(calls[i].kind) <= Rank(calls[j].kind)

\* a finalization pass that sent a DELETE for a job template, then for an
\* inventory, then for a project
C1_AllThreeDeleted ==
    \E i, j, k \in 1..Len(calls) :
        /\ i < j /\ j < k
        /\ calls[i].phase = "finalize" /\ calls[i].verb = "DELETE"
        /\ calls[i].kind = "job_templates" /\ calls[i].res = "ok"
        /\ calls[j].verb = "DELETE" /\ calls[j].kind = "inventories" /\ calls[j].res = "ok"
        /\ calls[k].verb = "DELETE" /\ calls[k].kind = "projects" /\ calls[k].res = "ok"

\* every declared resource was deleted with success, in the order of finalization
AllDeleted ==
    /\ Len(Deletes) = Len(DeclaredOrder(k8s.spec))
    /\ \A j \in 1..Len(Deletes) : Deletes[j].res = "ok"
    /\ { <<Deletes[j].kind, Deletes[j].name>> : j \in 1..Len(Deletes) }
           = { DeclaredOrder(k8s.spec)[j] : j \in 1..Len(DeclaredOrder(k8s.spec)) }

\* C2: the finalizer leaves the instance only in a step that ends a pass in
\* which the Delete of every declared job template, inventory and project
\* returned success; a Delete that failed is the last call of its pass (no
\* later delete is attempted), the pass has ended, and the finalizer and the
\* instance are still there.
C2_FinalizerAfterAllDeletes ==
    /\ [](\A i \in 1..Len(calls) :
              (calls[i].verb = "delete" /\ calls[i].res = "err")
              => /\ i = Len(calls)
                 /\ pc = Idle
                 /\ k8s.finalizer /\ k8s.exists)
    /\ [][(k8s.finalizer /\ ~k8s'.finalizer) => (AllDeleted' /\ pc.phase = "finalize")]_vars

\* the instance is gone after a pass that deleted all four declared resources
C2_FinalizerRemoved ==
    /\ ~k8s.exists /\ ~k8s.finalizer /\ k8s.deleting
    /\ AllDeleted
    /\ \E i \in 1..Len(calls) : calls[i].verb = "DELETE" /\ calls[i].res = "ok"

\* Ready=False with reason ConnectionFailed is among the conditions
ReadyFalse(status) ==
    \E i \in 1..Len(status.conditions) :
        status.conditions[i] = Condition("False", "ConnectionFailed")

\* the step is the connection test of a pass, and the test failed
ConnectionTestFailed == pc.phase = "conn" /\ Last(calls').res # "ok"

\* what the claim says of a failed connection test
ConnectionFailureHandled ==
    IF mem.spec.externalInstance
    THEN /\ pc' = Idle
         /\ Len(calls') = 1
         /\ ReadyFalse(mem'.status)
         /\ result'.requeueAfter = RequeueShort
         /\ result'.err # ""
    ELSE /\ pc' = At("drift", 1)
         /\ ~ReadyFalse(mem'.status)
         /\ mem'.status.conditions = mem.status.conditions

\* C3 (amended): when the connection test of a pass fails and the status
\* updates the test makes succeed, the pass ends before drift correction (its
\* only call is the ping) with Ready=False, reason ConnectionFailed, stored on
\* the instance, and a requeue after 30 s, if and only if the instance is
\* external; for a non-external instance the conditions stay as they were and
\* the pass goes on to drift correction.  When the status update that records
\* a periodic check fails, the pass ends there for either kind of instance,
\* with no Ready=False set.
C3_ConnectionFailure ==
    [][ /\ (ConnectionTestFailed /\ apiFaults' = apiFaults)
           => /\ ConnectionFailureHandled
              /\ mem.spec.externalInstance => ReadyFalse(k8s'.status)
        /\ (ConnectionTestFailed /\ result'.err = "status update failed")
           => /\ pc' = Idle
              /\ mem'.status.conditions = mem.status.conditions
              /\ k8s' = k8s
      ]_vars

\* C3 as stated: whenever the connection test of a pass fails, the pass ends
\* with Ready=False and a requeue for an external instance, and goes on to
\* drift correction for a non-external one.
C3_AsStated == [][ConnectionTestFailed => ConnectionFailureHandled]_vars

\* an external instance whose pass ended at the failed connection test, with
\* Ready=False stored
C3_ExternalStopped ==
    /\ pc = Idle
    /\ mem.spec.externalInstance
    /\ Len(calls) = 1 /\ calls[1].kind = "ping" /\ calls[1].res # "ok"
    /\ ReadyFalse(k8s.status)
    /\ result.requeueAfter = RequeueShort

\* a named event of the item among the entries a step adds
Added(verb, res, item) ==
    \E j \in 1..Len(NewCalls) :
        /\ NewCalls[j].verb = verb /\ NewCalls[j].res = res
        /\ NewCalls[j].kind = item.kind /\ NewCalls[j].name = item.spec.name

\* the step sends a write to the server
Writes == \E j \in 1..Len(NewCalls) : NewCalls[j].verb \in {"POST", "PATCH", "DELETE"}

\* what C4 says of the drift step for one declared resource
DriftStepAsClaimed(item) ==
    LET absent  == ServerList(remote, item.kind, item.spec.name) = << >>
        looked  == ~Added("lookup", "err", item)
        ensured == Added("ensure", "ok", item) \/ Added("ensure", "err", item)
    IN  /\ ~looked => (~ensured /\ ~Writes)
        /\ looked => (ensured <=> (absent \/ Added("matches", "false", item)))
        /\ (looked /\ ~absent)
           => (Added("matches", "true", item) \/ Added("matches", "false", item))
        /\ (looked /\ ~absent /\ item.kind = "projects")
           => (Added("matches", "true", item)
               <=> IsProjectInDesiredState(
                       ServerList(remote, item.kind, item.spec.name)[1], item.spec))
        /\ Added("matches", "true", item)
           => (~Writes /\ remote' = remote /\ mem'.status = mem.status)
        /\ Added("ensure", "ok", item)
           => StatusEntry(mem'.status, item.kind, item.spec.name) = ReconciledCorrected
        /\ ~Added("ensure", "ok", item)
           => StatusEntry(mem'.status, item.kind, item.spec.name)
              = StatusEntry(mem.status, item.kind, item.spec.name)

\* C4: in the drift-correction phase ensure is called for a declared resource
\* if and only if its lookup returned nothing or the comparison with the
\* declared spec returned false; for a resource that is present and matches
\* the step sends no write, leaves the server as it is and leaves the status
\* as it is; after a successful ensure the resource's status entry is
\* "Reconciled (corrected internal changes)".
C4_DriftEnsuresOnlyOnDifference ==
    [][(pc.phase = "drift" /\ pc.i <= Len(WorkList(mem.spec)))
       => DriftStepAsClaimed(WorkList(mem.spec)[pc.i])]_vars

\* a pass whose drift phase found one project matching and skipped it, and
\* found a later resource differing and ensured it
C4_SkippedAndEnsured ==
    \E i, j \in 1..Len(calls) :
        /\ calls[i].phase = "drift" /\ calls[i].verb = "matches" /\ calls[i].res = "true"
        /\ calls[j].phase = "drift" /\ calls[j].verb = "matches" /\ calls[j].res = "false"
        /\ \E k \in 1..Len(calls) :
              /\ k > j /\ calls[k].phase = "drift" /\ calls[k].verb = "ensure"
              /\ calls[k].res = "ok" /\ calls[k].name = calls[j].name
              /\ StatusEntry(mem.status, calls[k].kind, calls[k].name) = ReconciledCorrected

\* C5: the Ensure calls of the per-kind phase of a pass are the declared
\* resources in the order all projects, all inventories, all job templates
\* (declared order within a kind), one call each, up to the resource the pass
\* has reached or failed at; a pass that got through the phase has ensured
\* every declared resource, whether it matched in the drift phase or not; and
\* each resource whose Ensure succeeded has the status entry "Reconciled".
C5_EachPhaseEnsuresAll ==
    /\ Len(EachEnsures) <= Len(DeclaredOrder(mem.spec))
    /\ \A j \in 1..Len(EachEnsures) :
          /\ <<EachEnsures[j].kind, EachEnsures[j].name>> = DeclaredOrder(mem.spec)[j]
          /\ j < Len(EachEnsures) => EachEnsures[j].res = "ok"
          /\ EachEnsures[j].res = "ok"
             => StatusEntry(mem.status, EachEnsures[j].kind, EachEnsures[j].name) = Reconciled
    /\ pc.phase = "each" => Len(EachEnsures) = pc.i - 1
    /\ (pc = Idle /\ Len(EachEnsures) > 0 /\ Last(EachEnsures).res = "ok")
       => Len(EachEnsures) = Len(DeclaredOrder(mem.spec))

\* a finished pass whose drift phase found every declared resource matching
\* and whose per-kind phase ensured all four of them all the same
C5_MatchingYetEnsured ==
    /\ pc = Idle
    /\ result = Result(RequeueShort, "")
    /\ Len(EachEnsures) = 4
    /\ \A j \in 1..Len(calls) : calls[j].verb = "matches" => calls[j].res = "true"
    /\ \E j \in 1..Len(calls) : calls[j].verb = "matches"
    /\ \E j \in 1..Len(calls) : calls[j].phase = "each" /\ calls[j].verb = "PATCH"

\* the remote objects that carry a name
Named(store, kind, name) == { x \in store[kind] : x.name = name }

\* a retry follows the pass: it returned an error or a requeue delay
RetryScheduled(r) == r.done /\ (r.err # "" \/ r.requeueAfter > 0)

\* C6: when the Ensure of a declared resource fails in the per-kind phase,
\* that call is the last of the pass (no later resource is ensured), the pass
\* ends with a retry scheduled, and every resource ensured earlier in the
\* phase keeps its remote object as it was and its "Reconciled" status entry,
\* in the pass's copy and, unless the status update failed, on the instance.
C6_EachFailureStopsPass ==
    /\ [](\A i \in 1..Len(calls) :
              (calls[i].phase = "each" /\ calls[i].verb = "ensure" /\ calls[i].res = "err")
              => (i = Len(calls) /\ pc = Idle /\ RetryScheduled(result)))
    /\ [][(pc.phase = "each" /\ Len(calls') > 0 /\ Last(calls').res = "err"
           /\ Last(calls').verb = "ensure")
          => \A j \in 1..(pc.i - 1) :
                LET kind == DeclaredOrder(mem.spec)[j][1]
                    name == DeclaredOrder(mem.spec)[j][2]
                IN  /\ Named(remote', kind, name) = Named(remote, kind, name)
                    /\ Named(remote', kind, name) # { }
                    /\ StatusEntry(mem'.status, kind, name) = Reconciled
                    /\ apiFaults' = apiFaults
                       => StatusEntry(k8s'.status, kind, name) = Reconciled]_vars

\* a pass that ensured both projects and then failed on the inventory: the
\* projects are on the server and "Reconciled" is stored for them
C6_FailedAfterTwo ==
    /\ pc = Idle
    /\ Len(EachEnsures) = 3 /\ EachEnsures[3].res = "err"
    /\ result.requeueAfter = RequeueRetry
    /\ Named(remote, "projects", "P1") # { } /\ Named(remote, "projects", "P2") # { }
    /\ StatusEntry(k8s.status, "projects", "P1") = Reconciled
    /\ StatusEntry(k8s.status, "projects", "P2") = Reconciled

\* C10: the remote projects, inventories and job templates whose names the
\* instance does not declare are the ones the server started with, unchanged,
\* and no pass sends a create with such a name or an update or delete to the
\* id of such an object.
C10_UndeclaredUntouched ==
    /\ \A kind \in ResourceKinds :
          { x \in remote[kind] : x.name \notin DeclaredNames(k8s.spec, kind) }
              = ForeignObjects[kind]
    /\ \A i \in 1..Len(calls) :
          (calls[i].kind \in ResourceKinds /\ calls[i].verb \in {"POST", "PATCH", "DELETE"})
          => /\ calls[i].verb \in {"POST", "PATCH"}
                => calls[i].name \in DeclaredNames(k8s.spec, calls[i].kind)
             /\ calls[i].verb \in {"PATCH", "DELETE"}
                => \A x \in ForeignObjects[calls[i].kind] : x.id # calls[i].id

\* the instance is gone after reconcile passes and a finalize pass that
\* deleted its objects, and the foreign objects are all there
C10_AfterFinalize ==
    /\ ~k8s.exists /\ k8s.deleting
    /\ \E i \in 1..Len(calls) : calls[i].verb = "DELETE" /\ calls[i].res = "ok"
    /\ \A kind \in ResourceKinds : remote[kind] = ForeignObjects[kind]

\* a status entry that reports a failure: one that is there and is neither
\* of the two "Reconciled" texts
FailedEntry(e) == e \notin {"", Reconciled, ReconciledCorrected}

\* C7 as stated: once a pass in which a create or update of a declared
\* resource failed has ended (and its status update, if it made one, went
\* through), the status stored on the instance has a "Failed: ..." entry for
\* that resource.
C7_FailureRecorded ==
    \A i \in 1..Len(calls) :
        ( /\ pc = Idle
          /\ result.err # "status update failed"
          /\ calls[i].kind \in ResourceKinds
          /\ calls[i].verb \in {"POST", "PATCH"}
          /\ calls[i].res # "ok" )
        => FailedEntry(StatusEntry(k8s.status, calls[i].kind, calls[i].name))

\* the drift phase of the pass found the project differing from its
\* declaration and ensured it with success
DriftCorrected(name) ==
    \E i, j \in 1..Len(calls) :
        /\ i < j
        /\ calls[i] = Entry("drift", "matches", "projects", name, 0, "false")
        /\ calls[j] = Entry("drift", "ensure", "projects", name, 0, "ok")

\* the declared description of a project
DeclaredDescription(spec, name) ==
    LET i == CHOOSE j \in 1..Len(spec.projects) : spec.projects[j].name = name
    IN  spec.projects[i].description

\* the pass got through both phases and stored its status
PassSucceeded == pc = Idle /\ result = Result(RequeueShort, "")

\* C8 (amended): when a declared project's remote description was changed out
\* of band, the drift phase of the next pass finds the comparison false and
\* calls ensure; after a successful ensure the remote description equals the
\* declared one for the rest of the pass, the status entry is "Reconciled
\* (corrected internal changes)" through the drift phase and is stored so at
\* its end, and it is "Reconciled", in the pass's copy and on the instance,
\* once the pass has got through the per-kind phase and finished.
C8_CorrectedThenReconciled ==
    \A name \in DeclaredNames(mem.spec, "projects") :
        /\ (\E i \in 1..Len(calls) :
                calls[i] = Entry("drift", "matches", "projects", name, 0, "false"))
           => (\E j \in 1..Len(calls) :
                  /\ calls[j].phase = "drift" /\ calls[j].verb = "ensure"
                  /\ calls[j].kind = "projects" /\ calls[j].name = name)
        /\ DriftCorrected(name)
           => /\ pc.phase \in {"drift", "each"}
                 => \A x \in Named(remote, "projects", name) :
                        x.description = DeclaredDescription(mem.spec, name)
              /\ pc.phase = "drift"
                 => StatusEntry(mem.status, "projects", name) = ReconciledCorrected
              /\ (pc.phase = "each" /\ Len(EachEnsures) = 0)
                 => StatusEntry(k8s.status, "projects", name) = ReconciledCorrected
              /\ PassSucceeded
                 => /\ StatusEntry(mem.status, "projects", name) = Reconciled
                    /\ StatusEntry(k8s.status, "projects", name) = Reconciled

\* C8 as stated: when the pass that corrected the project has finished, the
\* project's status entry is "Reconciled (corrected internal changes)".
C8_AsStated ==
    \A name \in DeclaredNames(mem.spec, "projects") :
        (DriftCorrected(name) /\ PassSucceeded)
        => StatusEntry(k8s.status, "projects", name) = ReconciledCorrected

\* a finished pass that corrected project P1 after an out-of-band edit
C8_EditedThenCorrected ==
    /\ edits = 1
    /\ DriftCorrected("P1")
    /\ PassSucceeded
    /\ \A x \in Named(remote, "projects", "P1") : x.description = "d"
    /\ \E j \in 1..Len(calls) :
          /\ calls[j].phase = "drift" /\ calls[j].verb = "PATCH"
          /\ calls[j].name = "P1" /\ calls[j].res = "ok"

HostNamesUnder(store, name) ==
    { h.name : h \in { h \in store["hosts"] :
                          \E x \in Named(store, "inventories", name) : h.inventory = x.id } }

\* C11 as stated: after a successful ensure of an inventory declared with a
\* non-empty host list, the names of the hosts that exist remotely under that
\* inventory are the declared host names.
C11_HostsMirrorDeclared ==
    ( /\ pc.phase = "lab" /\ pc.i >= 1
      /\ mem.item.kind = "inventories"
      /\ Len(mem.item.spec.hosts) > 0
      /\ result.err = "" )
    => HostNamesUnder(remote, mem.item.spec.name)
           = { mem.item.spec.hosts[i].name : i \in 1..Len(mem.item.spec.hosts) }

\* the step of a pass that handles the declared job template at pc.i
JobTemplateStep ==
    /\ pc.phase \in {"drift", "each"}
    /\ pc.i <= Len(WorkList(mem.spec))
    /\ WorkList(mem.spec)[pc.i].kind = "job_templates"
    /\ Len(calls') > Len(calls)

\* the error EnsureJobTemplate returns for a declared job template whose
\* project, or else whose inventory, the server does not hold
MissingDependency(js) ==
    IF Named(remote, "projects", js.projectName) = { }
    THEN "project " \o js.projectName \o " not found"
    ELSE IF Named(remote, "inventories", js.inventoryName) = { }
    THEN "inventory " \o js.inventoryName \o " not found"
    ELSE ""

\* the status entries of every declared resource but one are those of before
OthersUnchanged(kind, name) ==
    \A k \in ResourceKinds : \A n \in DeclaredNames(mem.spec, k) :
        <<k, n>> # <<kind, name>>
        => /\ StatusEntry(mem'.status, k, n) = StatusEntry(mem.status, k, n)
           /\ StatusEntry(k8s'.status, k, n)
                  \in {StatusEntry(k8s.status, k, n), StatusEntry(mem.status, k, n)}

\* what C12 says of the step for the job template js
MissingDependencyStep(js) ==
    /\ \A j \in 1..Len(NewCalls) :
          ~(NewCalls[j].kind = "job_templates" /\ NewCalls[j].verb \in {"POST", "PATCH"})
    /\ \A j \in 1..Len(NewCalls) :
          (NewCalls[j].verb = "ensure")
          => /\ NewCalls[j].res = "err"
             /\ pc' = Idle
             /\ result'.err # ""
             /\ faults' = faults
                => IF pc.phase = "drift"
                   THEN result'.err = "failed to reconcile job template " \o js.name \o ": "
                                      \o MissingDependency(js)
                   ELSE /\ StatusEntry(mem'.status, "job_templates", js.name)
                               = FailedPrefix \o MissingDependency(js)
                        /\ apiFaults' = apiFaults => result'.err = MissingDependency(js)
             /\ OthersUnchanged("job_templates", js.name)

\* C12: an ensure of a declared job template whose project or inventory has
\* no remote object fails: it sends no create and no update of the job
\* template, its error is "project <name> not found" or "inventory <name>
\* not found" whenever no remote call of the step failed, the pass ends
\* there (with that error, unless the status update that records it fails),
\* and the status entries of all other declared resources are what they were
\* before the step.
C12_MissingDependencyFails ==
    [][ (JobTemplateStep /\ MissingDependency(WorkList(mem.spec)[pc.i].spec) # "")
        => MissingDependencyStep(WorkList(mem.spec)[pc.i].spec) ]_vars

\* a pass that reconciled P1 and I1 and then failed on J1 in the per-kind
\* phase because its project had been deleted on the server
C12_FailedOnMissingProject ==
    /\ pc = Idle
    /\ result.err = "project P1 not found"
    /\ StatusEntry(k8s.status, "projects", "P1") = Reconciled
    /\ StatusEntry(k8s.status, "inventories", "I1") = Reconciled
    /\ StatusEntry(k8s.status, "job_templates", "J1") = FailedPrefix \o "project P1 not found"

\* the creates of project P1 the pass has sent
P1Creates ==
    SelectSeq(calls, LAMBDA e : e.verb = "POST" /\ e.kind = "projects" /\ e.name = "P1")

\* the pass found no project P1 on the server when it first looked
P1Absent ==
    \E i \in 1..Len(calls) : calls[i] = Entry("drift", "lookup", "projects", "P1", 0, "absent")

\* C13: a pass over an instance that declares the one project P1 (git, with
\* scmUrl and scmBranch), against a server that holds no project P1 and that
\* nobody else changes, sends at most one create for P1; when the pass has got
\* through, it sent exactly one, the create was answered with an id above 0,
\* the server holds one project named P1 and it has that id, and the project
\* status map of the instance is exactly {P1: "Reconciled"}.
C13_OneCreate ==
    /\ edits = 0 => Len(P1Creates) <= 1
    /\ (edits = 0 /\ PassSucceeded /\ P1Absent)
       => /\ Len(P1Creates) = 1
          /\ P1Creates[1].res = "ok"
          /\ P1Creates[1].id > 0
          /\ \E x \in remote["projects"] :
                /\ x.id = P1Creates[1].id
                /\ Named(remote, "projects", "P1") = {x}
    /\ PassSucceeded
       => /\ DOMAIN k8s.status.projectStatuses.m = {"P1"}
          /\ k8s.status.projectStatuses.m["P1"] = Reconciled
          /\ mem.status.projectStatuses.m = k8s.status.projectStatuses.m

\* the first pass over the instance that declares P1 alone has got through
C13_P1Created ==
    /\ k8s.spec = OneProjectSpec
    /\ edits = 0
    /\ PassSucceeded
    /\ P1Absent
    /\ Len(P1Creates) = 1
    /\ StatusEntry(k8s.status, "projects", "P1") = Reconciled

\* Ready=True with reason ReconciliationSucceeded is among the conditions
ReadyTrue(status) ==
    \E i \in 1..Len(status.conditions) :
        status.conditions[i] = Condition("True", "ReconciliationSucceeded")

\* the step makes Ready=True: in the pass's copy of the instance, or on the
\* instance as stored
SetsReadyTrue ==
    \/ /\ pc.phase # "idle"
       /\ mem'.status.conditions # mem.status.conditions
       /\ ReadyTrue(mem'.status)
    \/ /\ k8s'.status.conditions # k8s.status.conditions
       /\ ReadyTrue(k8s'.status)

\* the drift phase of the logged pass looked at every declared resource and
\* none of its lookups and ensures failed
DriftReturnedNil(log, spec) ==
    /\ \A k \in ResourceKinds : \A n \in DeclaredNames(spec, k) :
          \E j \in 1..Len(log) :
              /\ log[j].phase = "drift" /\ log[j].verb = "lookup"
              /\ log[j].kind = k /\ log[j].name = n
              /\ log[j].res \in {"absent", "present"}
    /\ \A j \in 1..Len(log) :
          (log[j].phase = "drift" /\ log[j].verb = "ensure") => log[j].res = "ok"

\* the per-kind phase of the logged pass ensured every declared resource with
\* success, and no ensure of it failed
EnsuredAll(log, spec) ==
    /\ \A k \in ResourceKinds : \A n \in DeclaredNames(spec, k) :
          \E j \in 1..Len(log) : log[j] = Entry("each", "ensure", k, n, 0, "ok")
    /\ \A j \in 1..Len(log) :
          (log[j].phase = "each" /\ log[j].verb = "ensure") => log[j].res = "ok"

\* C14: a step of a pass makes the Ready condition True with reason
\* ReconciliationSucceeded, in the pass's copy or on the stored instance, only
\* if in that same pass the drift phase returned without error and the ensure
\* of every declared project, inventory and job template succeeded.
C14_ReadyOnlyAfterSuccess ==
    [][ SetsReadyTrue
        => /\ DriftReturnedNil(calls', mem.spec)
           /\ EnsuredAll(calls', mem.spec) ]_vars

\* a pass that got through after an earlier pass had failed on a request,
\* with Ready=True stored on the instance
C14_ReadyAfterRetry ==
    /\ PassSucceeded
    /\ faults = 1
    /\ ReadyTrue(k8s.status)
    /\ EnsuredAll(calls, mem.spec)
    /\ \A j \in 1..Len(calls) : calls[j].res # "err"

\* the number of conditions of type Ready in a list of conditions
ReadyCount(conds) == Cardinality({ i \in 1..Len(conds) : conds[i].type = "Ready" })

\* C15: in every reachable state, after any sequence of successful passes,
\* failed passes and connection-failure passes, the conditions of the
\* instance, as stored and in the pass's copy, hold at most one condition of
\* type Ready.
C15_OneReadyCondition ==
    /\ ReadyCount(k8s.status.conditions) <= 1
    /\ ReadyCount(mem.status.conditions) <= 1

\* a connection-failure pass after a pass that got through: the stored
\* Ready=True was replaced by Ready=False
C15_TrueReplacedByFalse ==
    /\ pc = Idle
    /\ ReadyFalse(k8s.status)
    /\ Len(k8s.status.conditions) = 1
    /\ \A k \in ResourceKinds : \A n \in DeclaredNames(k8s.spec, k) :
          StatusEntry(k8s.status, k, n) = Reconciled

\* the step ends a pass over an existing instance that is not being deleted:
\* in one of the phases of such a pass, or at its start on a failed write
PassEnds ==
    /\ pc' = Idle
    /\ result'.done
    /\ \/ pc.phase \in {"conn", "drift", "each"}
       \/ pc.phase = "idle" /\ k8s.exists /\ ~k8s.deleting /\ apiFaults' # apiFaults

\* the pass ends at a failed drift correction or a failed ensure
MidPassFailure ==
    /\ pc.phase \in {"drift", "each"}
    /\ Len(calls') > Len(calls)
    /\ Last(calls').res = "err"

\* the pass got through the per-kind phase
CompletesPass == pc.phase = "each" /\ pc.i > Len(WorkList(mem.spec))

MapsAllocated(status) ==
    \A kind \in ResourceKinds : status[StatusField(kind)].alloc

\* C17: in every pass the project, inventory and job template status maps of
\* the pass's copy of the instance are non-nil from its first step on, through
\* finalization, connection test, drift correction and per-kind ensures, so
\* that no step writes a status entry into a nil map and no pass ends in the
\* panic of such a write; also on the first pass of an instance whose stored
\* status is empty.
C17_MapsAllocatedBeforeWrite ==
    /\ pc.phase # "idle" => MapsAllocated(mem.status)
    /\ result.err # NilMapPanic

\* the first pass of an instance whose stored status is still empty has
\* written a status entry in the drift phase
C17_FirstPassWrites ==
    /\ pc.phase = "drift"
    /\ k8s.status.conditions = << >>
    /\ ~k8s.status.projectStatuses.alloc
    /\ StatusEntry(mem.status, "projects", "P1") = ReconciledCorrected

\* C18 as stated: reconcileInternalChanges, called on its own with an
\* instance whose three status maps are nil and that declares one project,
\* which the server does not hold, returns changed = true and no error,
\* leaves the three status maps non-nil, and sets the project's status entry
\* to "Reconciled (corrected internal changes)".
C18_NilMapsHandled ==
    ( /\ pc = Idle
      /\ result.done
      /\ mem.spec = OneProjectSpec
      /\ ~MapsAllocated(k8s.status)
      /\ P1Absent
      /\ faults = 0 )
    => /\ result.err = ""
       /\ mem.changed
       /\ MapsAllocated(mem.status)
       /\ StatusEntry(mem.status, "projects", "P1") = ReconciledCorrected

\* what C19 says of a find by name: list is the logged list call, found the
\* logged outcome of the find that made it, held the objects of that name
\* the server held
FoundAsListed(list, found, held) ==
    /\ list.verb = "LIST"
    /\ found.verb = "lookup"
    /\ found.kind = list.kind /\ found.name = list.name
    /\ found.res = "err" <=> list.res # "ok"
    /\ (list.res = "ok" /\ held = { }) => found.res = "absent"
    /\ (list.res = "ok" /\ held # { }) => found.res = "present"

NewDeletes == SelectSeq(NewCalls, LAMBDA e : e.verb = "DELETE")

\* what C20 says of a Delete by name of item, listed being the objects of
\* that name the server held, in the order it lists them
DeletedAsClaimed(item, listed) ==
    IF listed = << >>
    THEN /\ NewDeletes = << >>
         /\ NewCalls[1].res = "ok"
            => /\ Len(NewCalls) = 2
               /\ NewCalls[2] = Entry("finalize", "delete", item.kind, item.spec.name, 0, "ok")
    ELSE /\ Len(NewDeletes) <= 1
         /\ \A j \in 1..Len(NewDeletes) :
               NewDeletes[j].kind = item.kind /\ NewDeletes[j].id = listed[1].id
         /\ (NewCalls[1].res = "ok" /\ NewCalls[2].res = "ok") => Len(NewDeletes) = 1

\* C20: a Delete by name of a declared project, inventory or job template
\* that has no remote object sends no DELETE, and returns success once its
\* lookup is answered, having sent nothing else; when the object exists, the
\* Delete sends no DELETE but for the id of the object its lookup found, at
\* most one, and exactly one when the lookup and the GET that precedes the
\* DELETE are answered.
C20_DeleteByName ==
    [][ (pc.phase = "finalize" /\ Len(calls') > Len(calls))
        => DeletedAsClaimed(FinalizeList(mem.spec)[pc.i],
                            ServerList(remote, FinalizeList(mem.spec)[pc.i].kind,
                                       FinalizeList(mem.spec)[pc.i].spec.name)) ]_vars

\* a finalization that deleted the job template it found and then met a
\* declared object that the server does not hold
C20_PresentAndAbsent ==
    /\ pc.phase = "finalize"
    /\ \E i, j \in 1..Len(calls) :
          /\ calls[i].verb = "DELETE" /\ calls[i].res = "ok" /\ calls[i].id > 1
          /\ j > 1
          /\ calls[j].verb = "delete" /\ calls[j].res = "ok"
          /\ calls[j - 1].verb = "LIST" /\ calls[j - 1].res = "ok"

\* the client operation op has returned
HasReturned(op) == pc = At("lab", 1) /\ mem.op = op

\* what the claim on the delete by id says of a delete that received the
\* answer res: success on a 404, an error on every other non-2xx answer
DeleteAnswered(res) ==
    /\ res = "e404" => result.err = ""
    /\ res \in {"err", "e500b"} => result.err # ""

\* C21 (as stated): the delete by id returns success when the server answers
\* 404 and an error for every other non-2xx answer, whatever the body of the
\* answer holds; stated of the GET that precedes the DELETE and of the DELETE
C21_DeleteOn404 ==
    HasReturned("delete") =>
        \A j \in 1..Len(HttpCalls(calls)) :
            j <= 2 => DeleteAnswered(HttpCalls(calls)[j].res)

\* C22 (as stated): ListObjects returns the objects of the answer, without
\* error, whether the body of the 2xx answer is a paginated envelope with a
\* results array or a bare array of the same objects
C22_ListOfEitherShape ==
    (HasReturned("list") /\ calls[1].res \in {"ok", "bare"}) =>
        /\ result.err = ""
        /\ mem.out = ServerList(remote, mem.item.kind, mem.item.spec.name)

\* C23 (as stated): after a create answered with 2xx but without an id, a
\* failed lookup by name makes create return an error, and create never
\* returns an object whose name differs from the name that was posted
C23_CreateWithoutId ==
    (HasReturned("create") /\ calls[1].res \in CreateAnswers) =>
        /\ (Len(calls) > 1 /\ calls[2].res # "ok") => result.err # ""
        /\ result.err = "" => FieldIs(mem.out, "name", mem.item.spec.name)

\* the endpoint behind each relation of a project or of a job template
RelationKinds ==
    [credential |-> "credentials", project |-> "projects", inventory |-> "inventories"]

\* obj with each relation that is a bare id of an object the server holds
\* delivered as that object embedded with its name
Embedded(obj) ==
    [f \in DOMAIN obj |->
        IF /\ f \in DOMAIN RelationKinds
           /\ obj[f].ref = "id"
           /\ ServerHas(remote, RelationKinds[f], obj[f].id)
        THEN RefObject(obj[f].id, ServerGet(remote, RelationKinds[f], obj[f].id).name)
        ELSE obj[f]]

\* C24 (as stated): matchesDesired gives the same answer whether a relation of
\* the remote object is delivered as a bare id or as an embedded object with
\* the name of the related object (every request answered with success)
C24_RelationAsIdOrObject ==
    (HasReturned("matches") /\ faults = 0) =>
        mem.ok = InDesiredState(Thread("lab", World, << >>, << >>, FALSE), mem.item,
                                Embedded(ServerGet(remote, mem.item.kind, mem.id))).ok

\* the requests of the step that write an object of the kind: POST or PATCH
NewWrites(kind, verb) ==
    SelectSeq(NewCalls, LAMBDA e : e.verb = verb /\ e.kind = kind)

\* what C25 says of an Ensure of item, listed being the objects of that name
\* the server held, in the order it lists them
WrittenAsClaimed(item, listed, err) ==
    /\ Len(NewWrites(item.kind, "POST")) + Len(NewWrites(item.kind, "PATCH")) <= 1
    /\ err = "" => Len(NewWrites(item.kind, "POST")) + Len(NewWrites(item.kind, "PATCH")) = 1
    /\ listed = << >> => NewWrites(item.kind, "PATCH") = << >>
    /\ listed # << >> =>
          /\ NewWrites(item.kind, "POST") = << >>
          /\ \A j \in 1..Len(NewWrites(item.kind, "PATCH")) :
                NewWrites(item.kind, "PATCH")[j].id = listed[1].id

CreatedWithoutId(j) ==
    /\ calls[j].verb = "POST"
    /\ calls[j].kind = mem.item.kind
    /\ calls[j].res = "echoNoId"

\* C26: when the create that an Ensure of a project, inventory or job template
\* sends succeeds but returns an object without id, the Ensure returns an
\* error and sends no further request (for an inventory, none on its hosts)
C26_NoIdAfterCreate ==
    HasReturned("ensure") =>
        \A j \in 1..Len(calls) :
            CreatedWithoutId(j) => result.err # "" /\ j = Len(calls) /\ IsNil(mem.out)

\* an inventory declared with a host was created and came back without id
C26_InventoryWithoutId ==
    /\ HasReturned("ensure")
    /\ mem.item.kind = "inventories"
    /\ Len(mem.item.spec.hosts) > 0
    /\ CreatedWithoutId(Len(calls))
    /\ result.err = "created inventory 'I1' has no ID field"

\* the requests of the step that look the declared credential up
CredentialLookups == SelectSeq(NewCalls, LAMBDA e : e.verb = "LIST" /\ e.kind = "credentials")

\* the projects of the name that the server holds after the step carry no
\* credential
WrittenWithoutCredential(name) ==
    \A x \in remote'.projects : x.name = name => x.credential = RefNull

\* what C27 says of an EnsureProject of ps, a project declared with a
\* credential; held tells whether the server holds a credential of that name
CredentialHandled(ps, held) ==
    \A j \in 1..Len(CredentialLookups) :
        /\ CredentialLookups[j].res # "ok" =>
               /\ result'.err = "failed to find SCM credential: "
                                 \o ErrText(CredentialLookups[j].res)
               /\ NewWrites("projects", "POST") \o NewWrites("projects", "PATCH") = << >>
        /\ (CredentialLookups[j].res = "ok" /\ ~held) =>
               /\ Len(NewWrites("projects", "POST") \o NewWrites("projects", "PATCH")) = 1
               /\ result'.err = "" => WrittenWithoutCredential(ps.name)

\* C27: an EnsureProject of a project declared with an scmCredential returns
\* an error, having sent no create and no update, when the lookup of the
\* credential fails; when the lookup finds no credential of the name, it
\* sends its create or update all the same, and the project written carries
\* no credential.
C27_CredentialLookup ==
    [][ (pc.phase = "lab" /\ Len(calls') > Len(calls) /\ mem.item.kind = "projects")
        => CredentialHandled(mem.item.spec,
                             ServerList(remote, "credentials",
                                        mem.item.spec.scmCredential) # << >>) ]_vars

\* a second Ensure of the project whose credential lookup failed, after a
\* first that created the project without credential, none being held
C27_FailedAfterCreatedWithout ==
    /\ pc = At("lab", 2)
    /\ remote.credentials = {}
    /\ result.err = "failed to find SCM credential: " \o ErrText("err")
    /\ \E i \in 1..Len(calls) :
          /\ calls[i].verb = "POST" /\ calls[i].kind = "projects" /\ calls[i].res = "ok"
          /\ i > 1 /\ calls[i - 1].kind = "credentials" /\ calls[i - 1].res = "ok"

\* a whole pass on one declared project, run without interleaving: the drift
\* phase, then the EnsureProject of the main phase
SerialPass(t, ps) ==
    Ensure(DriftLooked(Lookup(t, [kind |-> "projects", spec |-> ps]),
                       [kind |-> "projects", spec |-> ps]),
           [kind |-> "projects", spec |-> ps])

\* the server after the passes of the two instances run one after the other
\* on the server as it was, first and second being the instances in order
SerialStore(first, second) ==
    SerialPass(SerialPass(Thread("pair", [remote |-> mem.start,
                                          nextId |-> [e \in Endpoints |-> 4]],
                                 << >>, << >>, FALSE),
                          mem.specs[first]),
               mem.specs[second]).w.remote

PairDone == pc.phase = "pair" /\ pc.i = << 5, 5 >>

ProjectAsDeclared(x, ps) ==
    /\ x.name = ps.name /\ x.description = ps.description /\ x.scm_type = ps.scmType
    /\ (ps.scmType # "manual" /\ ps.scmUrl # "") => FieldIs(x, "scm_url", ps.scmUrl)
    /\ ps.scmBranch # "" => FieldIs(x, "scm_branch", ps.scmBranch)
    /\ ps.scmCredential # "" =>
          \E c \in remote.credentials :
              c.name = ps.scmCredential /\ x.credential \in {RefId(c.id), RefObject(c.id, c.name)}

\* ... for the inventory is, with each of its declared hosts
InventoryAsDeclared(x, is) ==
    /\ x.name = is.name /\ x.description = is.description /\ x.variables = is.variables
    /\ \A i \in 1..Len(is.hosts) :
          \E h \in remote.hosts : h = Merge(h, HostData(is.hosts[i], x.id))

\* ... for the job template js, its relations naming the declared objects
JobTemplateAsDeclared(x, js) ==
    /\ x.name = js.name /\ x.description = js.description /\ x.playbook = js.playbook
    /\ \E q \in remote.projects :
          q.name = js.projectName /\ x.project \in {RefId(q.id), RefObject(q.id, q.name)}
    /\ \E q \in remote.inventories :
          q.name = js.inventoryName /\ x.inventory \in {RefId(q.id), RefObject(q.id, q.name)}

\* every declared project, inventory, host and job template exists on the
\* server with its declared field values and the stored Ready condition is True
Converged ==
    /\ ReadyTrue(k8s.status)
    /\ \A i \in 1..Len(k8s.spec.projects) :
          \E x \in remote.projects : ProjectAsDeclared(x, k8s.spec.projects[i])
    /\ \A i \in 1..Len(k8s.spec.inventories) :
          \E x \in remote.inventories : InventoryAsDeclared(x, k8s.spec.inventories[i])
    /\ \A i \in 1..Len(k8s.spec.jobTemplates) :
          \E x \in remote.job_templates : JobTemplateAsDeclared(x, k8s.spec.jobTemplates[i])

\* every declared job template names a project and an inventory that are
\* declared or that the server holds, and every declared project that names
\* a credential names one that the server holds
DependenciesExist ==
    /\ \A i \in 1..Len(k8s.spec.jobTemplates) :
        /\ \/ k8s.spec.jobTemplates[i].projectName \in DeclaredNames(k8s.spec, "projects")
           \/ \E q \in remote.projects : q.name = k8s.spec.jobTemplates[i].projectName
        /\ \/ k8s.spec.jobTemplates[i].inventoryName \in DeclaredNames(k8s.spec, "inventories")
           \/ \E q \in remote.inventories : q.name = k8s.spec.jobTemplates[i].inventoryName
    /\ \A i \in 1..Len(k8s.spec.projects) :
        k8s.spec.projects[i].scmCredential # ""
            => \E c \in remote.credentials : c.name = k8s.spec.projects[i].scmCredential

\* C29 (as stated): once every remote call succeeds and nothing is edited out
\* of band, an instance that is not deleted eventually has every declared
\* resource on the server with its declared values and Ready True
C29_AsStated == <>(k8s.deleting \/ Converged)

\* C29: the same for an instance whose job templates name projects and
\* inventories that are declared or exist on the server and whose projects
\* name credentials that exist on the server
C29_EventuallyConverged == DependenciesExist => <>(k8s.deleting \/ Converged)

\* the instance has converged after a pass that failed and an object that
\* somebody deleted on the server
C29_ConvergedAfterTrouble ==
    /\ Converged
    /\ k8s.spec = AWXInstanceSpec(FALSE)
    /\ faults > 0
    /\ edits > 0

\* the pass in progress follows a successful pass, and so far no request
\* and no API-server write has failed and nothing was changed out of band
AfterSuccessfulPass ==
    /\ pc.phase \in {"drift", "each"}
    /\ ReadyTrue(k8s.status)
    /\ ~k8s.deleting
    /\ faults = 0 /\ apiFaults = 0 /\ edits = 0

\* the drift phase of the pass in progress has called ensure, or has set a
\* status entry to "Reconciled (corrected internal changes)"
DriftPhaseEnsured ==
    \/ \E j \in 1..Len(calls) : calls[j].phase = "drift" /\ calls[j].verb = "ensure"
    \/ \E f \in {"projectStatuses", "inventoryStatuses", "jobTemplateStatuses"} :
          \E n \in DOMAIN mem.status[f].m :
              mem.status[f].m[n] = ReconciledCorrected

\* C30 (as stated): in a pass that directly follows a successful pass, with no
\* change in between, the drift phase calls ensure for no declared resource
\* and sets no status entry to "Reconciled (corrected internal changes)"
C30_NoDriftAfterSuccess == AfterSuccessfulPass => ~DriftPhaseEnsured


\* C31: every create, update or delete is sent by a step that starts with the
\* finalizer stored on a live instance, so the finalizer is stored before the
\* first remote write of every pass and before any object is created; and a
\* pass that adds the finalizer in memory and fails to store it ends at once
\* with the error, having sent no call at all.
C31_FinalizerBeforeWrites ==
    [][/\ Writes => k8s.exists /\ k8s.finalizer
       /\ (pc.phase = "idle" /\ ~k8s.deleting /\ mem'.finalizer /\ ~k8s'.finalizer)
          => /\ pc'.phase = "idle"
             /\ calls' = << >>
             /\ remote' = remote
             /\ result'.done /\ result'.err # ""]_vars

\* a pass has created an object, the finalizer being stored, after an update
\* of the instance had failed
C31_CreatedUnderFinalizer ==
    /\ k8s.finalizer
    /\ ~k8s.deleting
    /\ apiFaults > 0
    /\ \E j \in 1..Len(calls) : calls[j].verb = "POST" /\ calls[j].res = "ok"

\* the step sends a request with one of the verbs
Sends(verbs) == \E j \in 1..Len(NewCalls) : NewCalls[j].verb \in verbs

\* C32 (as stated): a step taken while the stored instance carries a deletion
\* timestamp sends no create and no update; a delete is sent only while the
\* stored instance carries the finalizer; and a step taken once the deleted
\* instance has lost its finalizer sends no call at all
C32_AsStated ==
    [][/\ k8s.deleting => ~Sends({"POST", "PATCH"})
       /\ Sends({"DELETE"}) => k8s.finalizer
       /\ (k8s.deleting /\ ~k8s.finalizer) => NewCalls = << >>]_vars

\* C32 (amended): the same, the first part for the passes that started after
\* the instance got its deletion timestamp, which are the passes that read it
C32_NoWritesOnceDeleting ==
    [][/\ (k8s.deleting /\ mem.deleting) => ~Sends({"POST", "PATCH"})
       /\ Sends({"DELETE"}) => k8s.finalizer
       /\ (k8s.deleting /\ ~k8s.finalizer) => NewCalls = << >>]_vars

\* a pass over a deleted instance that another finalizer still holds has
\* returned without a call, after a pass had created P1 and the finalization
\* pass had deleted it
C32_HeldAfterFinalization ==
    /\ k8s.exists /\ k8s.deleting /\ ~k8s.finalizer
    /\ pc.phase = "idle"
    /\ mem.deleting /\ ~mem.finalizer
    /\ calls = << >>
    /\ result = Result(0, "")
    /\ nextId["projects"] > 2
    /\ Named(remote, "projects", "P1") = { }

\* C33: under fair retries, with failures that come to an end, an instance
\* that carries a deletion timestamp and the finalizer eventually has the
\* finalizer removed, whatever earlier finalization passes got done.
C33_FinalizerEventuallyRemoved ==
    (k8s.deleting /\ k8s.finalizer) ~> ~k8s.finalizer

\* the finalizer was removed by a pass that found the job template, created
\* by an earlier pass, already deleted: a finalization pass had deleted it and
\* failed later on
C33_RemovedAfterPartialFinalization ==
    /\ k8s.deleting /\ ~k8s.finalizer
    /\ pc.phase = "idle"
    /\ result = Result(0, "")
    /\ faults > 0
    /\ nextId["job_templates"] > 2
    /\ \E j \in 1..Len(calls) :
          /\ calls[j].phase = "finalize" /\ calls[j].verb = "delete"
          /\ calls[j].kind = "job_templates" /\ calls[j].res = "ok"
    /\ \A j \in 1..Len(calls) :
          ~(calls[j].verb = "DELETE" /\ calls[j].kind = "job_templates")
    /\ \E j \in 1..Len(calls) :
          /\ calls[j].verb = "DELETE" /\ calls[j].kind = "projects" /\ calls[j].res = "ok"

\* C34: from its start to a failed drift correction or a failed ensure a pass
\* leaves the conditions alone: its copy holds the stored list, every step
\* keeps the stored list, and the step that fails ends the pass with the
\* stored conditions as they were, so that a stored Ready=True stays True; when
\* the failure is one of an ensure and its status update goes through, the
\* "Failed: ..." entry of that resource is stored next to it.
C34_ConditionsKept ==
    [][/\ pc'.phase \in {"conn", "drift", "each"}
          => /\ k8s'.status.conditions = k8s.status.conditions
             /\ mem'.status.conditions = k8s.status.conditions
       /\ MidPassFailure
          => /\ pc' = Idle
             /\ k8s'.status.conditions = k8s.status.conditions
             /\ mem'.status.conditions = k8s.status.conditions
             /\ ReadyTrue(k8s.status) => ReadyTrue(k8s'.status)
             /\ (pc.phase = "each" /\ apiFaults' = apiFaults)
                => FailedEntry(StatusEntry(k8s'.status, Last(calls').kind,
                                           Last(calls').name))]_vars

\* a pass has ended at a failed ensure after an earlier pass had got through:
\* the stored status holds Ready=True and a "Failed: ..." entry
C34_ReadyTrueBesideFailed ==
    /\ pc = Idle
    /\ result.done /\ result.requeueAfter = RequeueRetry /\ result.err # ""
    /\ ReadyTrue(k8s.status)
    /\ \E k \in ResourceKinds : \E n \in DeclaredNames(k8s.spec, k) :
          FailedEntry(StatusEntry(k8s.status, k, n))

\* the objects of a kind on the server whose name the instance does not declare
Undeclared(kind) ==
    { x \in remote[kind] : x.name \notin DeclaredNames(k8s.spec, kind) }

\* C35: no step takes a name out of a stored status map, whether or not the
\* instance still declares the name; and no step, of a pass or of
\* finalization, sends a DELETE for an object whose name the instance does not
\* declare (any more), or takes such an object off the server.
C35_EntriesAndObjectsStay ==
    [][\A k \in ResourceKinds :
          /\ DOMAIN k8s.status[StatusField(k)].m \subseteq DOMAIN k8s'.status[StatusField(k)].m
          /\ \A x \in Undeclared(k) :
                /\ \E y \in remote'[k] : y.id = x.id /\ y.name = x.name
                /\ \A j \in 1..Len(NewCalls) :
                      ~(NewCalls[j].verb = "DELETE" /\ NewCalls[j].kind = k
                        /\ NewCalls[j].id = x.id)]_vars

\* the instance was finalized after P1 had been taken out of its spec: the
\* status map still has the entry of P1, the server still has the project, and
\* the finalization pass deleted what was still declared
C35_OrphanAfterFinalization ==
    /\ k8s.deleting /\ ~k8s.finalizer
    /\ pc.phase = "idle"
    /\ "P1" \notin DeclaredNames(k8s.spec, "projects")
    /\ "P1" \in DOMAIN k8s.status.projectStatuses.m
    /\ Named(remote, "projects", "P1") # { }
    /\ \E j \in 1..Len(calls) :
          /\ calls[j].phase = "finalize" /\ calls[j].verb = "DELETE" /\ calls[j].res = "ok"

\* the inventory I1 declared with an empty host list
HostlessInventory == [kind |-> "inventories", spec |-> InventorySpec("I1", << >>)]

\* C36: an EnsureInventory and an IsInventoryInDesiredState called for an
\* inventory declared without hosts send no request on hosts and leave the
\* hosts of the server as they are; the answer of the comparison is that of
\* the inventory's own fields (name and description), whatever hosts the
\* server holds under the inventory.
C36_NoHostsDeclared ==
    [][(mem.item = HostlessInventory /\ mem'.op \in {"ensure", "matches"})
       => /\ \A j \in 1..Len(NewCalls) : NewCalls[j].kind # "hosts"
          /\ remote'["hosts"] = remote["hosts"]
          /\ mem'.op = "matches"
             => \E x \in remote["inventories"] :
                   /\ x.id = mem'.id
                   /\ mem'.ok = (x.name = "I1" /\ x.description = "d")]_vars

\* the inventory I1, declared without hosts, was ensured on a server that
\* holds a host under it: the inventory was updated and the host is still there
C36_HostKept ==
    /\ mem.item = HostlessInventory
    /\ mem.op = "ensure"
    /\ result = Result(0, "")
    /\ \E j \in 1..Len(calls) :
          calls[j].verb = "PATCH" /\ calls[j].kind = "inventories" /\ calls[j].res = "ok"
    /\ \E x \in Named(remote, "inventories", "I1") :
          \E h \in remote["hosts"] : h.inventory = x.id

\* the answers render no id the client can use for the object: the field is
\* left out, holds a string that is no number, or a value of another type
Malformed(x) == "idAs" \in DOMAIN x /\ x.idAs \in {"none", "word", "bool"}

\* the write requests of the step on the endpoint kind
WritesOn(kind) ==
    \E j \in 1..Len(NewCalls) :
        NewCalls[j].verb \in {"POST", "PATCH", "DELETE"} /\ NewCalls[j].kind = kind

\* C37: an Ensure or a Delete of a manager that is called for a name under
\* which the server holds an object whose id is missing or unusable returns
\* an error, sends no create, update or delete on the endpoint of that object
\* and leaves the objects of the endpoint as they are.  The same holds of the
\* host a declared inventory holds and of the project and the inventory a
\* declared job template names: the ensure fails and writes nothing on their
\* endpoint.
C37_MalformedIdFails ==
    [][(mem'.op \in {"ensure", "remove"})
       => /\ \A x \in Named(remote, mem.item.kind, mem.item.spec.name) :
                Malformed(x)
                => /\ result'.err # ""
                   /\ ~WritesOn(mem.item.kind)
                   /\ remote'[mem.item.kind] = remote[mem.item.kind]
          /\ \A h \in Named(remote, "hosts", "h1") :
                (/\ mem'.op = "ensure"
                 /\ mem.item.kind = "inventories"
                 /\ Len(mem.item.spec.hosts) > 0
                 /\ Malformed(h))
                => /\ result'.err # ""
                   /\ ~WritesOn("hosts")
                   /\ remote'["hosts"] = remote["hosts"]
          /\ \A k \in {"projects", "inventories"} :
                \A x \in Named(remote, k, IF k = "projects" THEN "P1" ELSE "I1") :
                   (/\ mem'.op = "ensure"
                    /\ mem.item.kind = "job_templates"
                    /\ Malformed(x))
                   => /\ result'.err # ""
                      /\ ~Writes
                      /\ remote' = remote]_vars

\* the job template J1 was ensured on a server whose answers leave the id out
\* of J1 alone: the project and the inventory it names were looked up and
\* answered, J1 was found, and the ensure returned the error of the missing id
C37_FoundWithoutId ==
    /\ mem.op = "ensure"
    /\ mem.item.kind = "job_templates"
    /\ \E x \in Named(remote, "job_templates", "J1") :
          "idAs" \in DOMAIN x /\ x.idAs = "none"
    /\ \A x \in Named(remote, "projects", "P1") : ~Malformed(x)
    /\ \A j \in 1..Len(calls) : calls[j].res = "ok"
    /\ Len(calls) >= 3
    /\ result.err # ""

\* the pass that ended sent the ping of the connection test
Pinged(log) == \E j \in 1..Len(log) : log[j].kind = "ping"

\* the stored connection status or the stored timestamp of the last
\* connection check is written in this step (the ageing of the timestamp
\* is time passing, not a write)
ConnectionFieldsWritten ==
    /\ k8s.exists /\ k8s'.exists
    /\ \/ k8s'.status.connectionStatus # k8s.status.connectionStatus
       \/ /\ k8s'.status.lastConnectionCheck # k8s.status.lastConnectionCheck
          /\ k8s'.status.lastConnectionCheck # "old"

\* the two fields are written only when the stored timestamp is unset or at
\* least 30 seconds old at that moment
WrittenOnlyWhenDue ==
    ConnectionFieldsWritten => k8s.status.lastConnectionCheck \in {"zero", "old"}

\* C38 as stated: every pass of an instance that is not being deleted has run
\* the connection test when it returns, and the connection status and the
\* timestamp of the last check are written only when at least 30 seconds have
\* passed since the stored timestamp.
C38_AsStated ==
    [][/\ (pc'.phase = "idle" /\ pc.phase # "idle" /\ ~mem'.deleting) => Pinged(calls')
       /\ (pc.phase = "idle" /\ pc'.phase = "idle" /\ result' # result /\ k8s.exists
           /\ ~mem'.deleting) => Pinged(calls')
       /\ WrittenOnlyWhenDue]_vars

\* C38: every pass of an instance that is not being deleted has run the
\* connection test when it returns, unless it returned at once with the error
\* of a failed write to the API server (of the first timestamp or of the
\* finalizer); the test runs whether or not 30 seconds have passed, sending
\* one ping.  The stored connection status and the stored timestamp of the
\* last check are written only when at least 30 seconds have passed since the
\* stored timestamp (or none is stored); in every other step, a failed
\* connection test included, both stay as they are.
C38_WrittenOnlyInPeriodicPasses ==
    [][/\ (pc'.phase = "idle" /\ pc.phase # "idle" /\ ~mem'.deleting) => Pinged(calls')
       /\ (pc.phase = "idle" /\ pc'.phase = "idle" /\ result' # result /\ k8s.exists
           /\ ~mem'.deleting)
          => /\ calls' = << >>
             /\ result'.err \in {"status update failed", "update failed"}
       /\ pc.phase = "conn"
          => /\ Len(NewCalls) = 1
             /\ NewCalls[1].verb = "GET" /\ NewCalls[1].kind = "ping"
       /\ WrittenOnlyWhenDue
       /\ (pc.phase = "conn" /\ k8s.status.lastConnectionCheck = "recent")
          => /\ k8s'.status.connectionStatus = k8s.status.connectionStatus
             /\ k8s'.status.lastConnectionCheck = k8s.status.lastConnectionCheck]_vars

\* a pass has returned whose connection test failed less than 30 seconds
\* after the last check: the stored connection status still reads "Connected"
C38_ConnectedAfterFailedTest ==
    /\ pc.phase = "idle"
    /\ result.done
    /\ k8s.exists /\ ~k8s.deleting
    /\ k8s.status.connectionStatus = "Connected"
    /\ k8s.status.lastConnectionCheck = "recent"
    /\ \E j \in 1..Len(calls) : calls[j].kind = "ping" /\ calls[j].res # "ok"

========================================================================
